---- MODULE Spec2Model ----
(***************************************************************************)
(* Streaming newsletter generation: the POST /api/newsletter/generate-     *)
(* stream endpoint (route.ts), the staleness evaluation and generation     *)
(* action it calls (generate-newsletter), the SSE codec (sse-helpers.ts)   *)
(* and the client read loop of useNewsletterStream.                        *)
(*                                                                         *)
(* Spec       one request handled by the endpoint, against a feed store    *)
(*            and a clock, with a client that may cancel the stream.       *)
(* SpecCodec  encodeSSE / parseSSELine applied to one event.               *)
(* SpecStream an encoded event stream delivered in arbitrary fragments to  *)
(*            the read loop of useNewsletterStream.generate.               *)
(* SpecEvents the same read loop on a live response: one event per chunk,  *)
(*            the transport ending at any time.                            *)
(* SpecStore  createRssArticle and deleteRssFeed on the article store.     *)
(***************************************************************************)
EXTENDS Integers, Sequences, FiniteSets, TLC

VARIABLES
  \* ---- server: feed store, clock, one request --------------------------
  feeds,            \* rssFeed collection: id -> [url, lastFetched]
  articleCount,     \* per feed: stored articles inside the request's window
  now,              \* the clock (ms)
  body,             \* the request body POST received
  pc,               \* position of the handler between its awaits
  httpStatus,       \* status of the Response returned (0: none yet)
  jsonError,        \* error text of a JSON error response ("" if none)
  streamOpen,       \* a ReadableStream was constructed and returned
  events,           \* events enqueued on the stream, in order
  closed,           \* controller.close() was called
  cancelled,        \* the client cancelled the stream
  escaped,          \* an exception left the start callback
  caught,           \* the value the catch block of start received
  feedsToRefresh,   \* result of the endpoint's getFeedsToRefresh
  genToRefresh,     \* result of the generation action's getFeedsToRefresh
  pending,          \* refreshes of the Promise.allSettled batch not settled
  refreshed,        \* settled refreshes: pairs <<id, "fulfilled"/"rejected">>
  evaluations,      \* number of getFeedsToRefresh calls made for the request
  articles,         \* number of articles retrieved (NULL before retrieval)
  producerInvoked,  \* streamObject was called
  produced,         \* snapshots the producer yielded so far
  producerEnded,    \* the producer's iterator reported done
  \* ---- codec: one event through encodeSSE and parseSSELine -------------
  codecEvent,       \* the event handed to encodeSSE
  codecText,        \* the text being passed along
  codecResult,      \* what parseSSELine returned
  codecPc,          \* "event", "encoded", "line", "parsed"
  \* ---- client: useNewsletterStream ------------------------------------
  sent,             \* events the response body carries, in order
  wire,             \* encoded text the reader has not yet delivered
  handled,          \* events passed to handleStreamEvent, in order
  clientPc,         \* "idle", "fetching", "reading", "done"
  isGenerating,
  loadingPhase,
  newsletter,       \* JNull or the last partial's data
  articlesAnalyzed,
  feedCount,
  articleCountRef,
  toasts,           \* toast calls made, in order
  \* ---- article store: rssArticle and rssFeed collections --------------
  articleDocs,      \* rssArticle: guid -> [present, feedId, sourceFeedIds]
  feedDocs,         \* ids of the rssFeed documents
  deleting,         \* argument of the deleteRssFeed call in progress
  deletePc,         \* position of deleteRssFeed between its awaits
  docsBefore,       \* rssArticle as it was when deleteRssFeed was called
  \* ---- bulkCreateRssArticles -------------------------------------------
  bulkInput,        \* the articles argument
  bulkPos,          \* articles of the argument the loop has processed
  results,          \* { created, skipped, errors }
  bulkPc,           \* "idle", "running", "returned"
  \* ---- overlapping generate calls of one useNewsletterStream ------------
  calls,            \* position of each generate call
  \* ---- NewsletterGenerationPage ----------------------------------------
  params,           \* the parsed generation parameters, or null
  hasStartedRef,    \* hasStartedRef.current
  starts            \* handleGenerate calls made so far

serverVars == <<feeds, articleCount, now, body, pc, httpStatus, jsonError,
                streamOpen, events, closed, cancelled, escaped, caught,
                feedsToRefresh, genToRefresh, pending, refreshed, evaluations,
                articles, producerInvoked, produced, producerEnded>>

codecVars == <<codecEvent, codecText, codecResult, codecPc>>

clientVars == <<sent, wire, handled, clientPc, isGenerating, loadingPhase,
                newsletter, articlesAnalyzed, feedCount, articleCountRef,
                toasts>>

storeVars == <<articleDocs, feedDocs, deleting, deletePc, docsBefore>>

bulkVars == <<bulkInput, bulkPos, results, bulkPc>>

pageVars == <<params, hasStartedRef, starts>>

restVars == <<bulkVars, calls, pageVars>>

vars == <<serverVars, codecVars, clientVars, storeVars, restVars>>

(***************************************************************************)
(* Bounds of the model.                                                    *)
(***************************************************************************)
MaxClock == 4        \* the clock stops after this many hours
MaxSnapshots == 2    \* snapshots one producer run yields at most
MaxFeedCount == 4    \* largest feedCount of an event given to the codec
MaxPartials == 1     \* partial events in a response body read by the client
MaxEvents == 4       \* events a live response delivers at most
MaxSources == 2      \* entries of one article's sourceFeedIds at most

(***************************************************************************)
(* JSON values, as JavaScript holds them: tagged so that values of         *)
(* different kinds can be compared.                                        *)
(***************************************************************************)
JNum(n) == [t |-> "num", v |-> n]
JStr(s) == [t |-> "str", v |-> s]
JObj(r) == [t |-> "obj", v |-> r]

\* event.type of a parsed value; "" when it has no string type field
TypeOf(e) ==
  IF e.t = "obj" /\ "type" \in DOMAIN e.v /\ e.v.type.t = "str"
  THEN e.v.type.v ELSE ""

\* The six event shapes of sse-helpers.ts
RefreshingEvent(n) == JObj([type |-> JStr("refreshing"), feedCount |-> JNum(n)])
AnalyzingEvent(n) == JObj([type |-> JStr("analyzing"), feedCount |-> JNum(n)])
MetadataEvent(n) == JObj([type |-> JStr("metadata"), articlesAnalyzed |-> JNum(n)])
PartialEvent(d) == JObj([type |-> JStr("partial"), data |-> d])
CompleteEvent == JObj([type |-> JStr("complete")])
ErrorEvent(m) == JObj([type |-> JStr("error"), error |-> JStr(m)])

(***************************************************************************)
(* Text.  A text is a sequence of atoms: a structural character (quote,    *)
(* backslash, newline, brace, bracket, colon, comma, the space after the   *)
(* "data:" field name) or a run of other characters.  Fragments of a text  *)
(* begin and end between atoms.                                            *)
(***************************************************************************)
QUOTE == "\""
BACKSLASH == "\\"
NEWLINE == "\n"

\* strings of the model that hold structural characters, with their atoms
StructuredStrings ==
  {"line1\nline2", "say \"hi\"", "data: {}", "C:\\feeds"}

Chars(s) ==
  CASE s = "" -> <<>>
    [] s = "line1\nline2" -> <<"line1", NEWLINE, "line2">>
    [] s = "say \"hi\"" -> <<"say ", QUOTE, "hi", QUOTE>>
    [] s = "data: {}" -> <<"data", ":", " ", "{", "}">>
    [] s = "C:\\feeds" -> <<"C", ":", BACKSLASH, "feeds">>
    [] OTHER -> <<s>>

StringOf(atoms) ==
  IF atoms = <<>> THEN ""
  ELSE IF \E s \in StructuredStrings : Chars(s) = atoms
  THEN CHOOSE s \in StructuredStrings : Chars(s) = atoms
  ELSE IF Len(atoms) = 1 THEN atoms[1]
  ELSE "?"

RECURSIVE Concat(_)
Concat(texts) ==
  IF texts = <<>> THEN <<>> ELSE Head(texts) \o Concat(Tail(texts))

\* line.startsWith(prefix)
StartsWith(text, prefix) ==
  Len(text) >= Len(prefix) /\ SubSeq(text, 1, Len(prefix)) = prefix

\* chunk.split("\n"): the pieces between newlines, empty ones included;
\* line is what was read of the current piece before text
SplitLines(text, line) ==
  LET whole == line \o text
      breaks == {i \in 1..Len(whole) : whole[i] = NEWLINE}
      pieces == Cardinality(breaks) + 1
      Break(k) == CHOOSE i \in breaks : Cardinality({j \in breaks : j < i}) = k - 1
      First(k) == IF k = 1 THEN 1 ELSE Break(k - 1) + 1
      Last(k) == IF k = pieces THEN Len(whole) ELSE Break(k) - 1
  IN [k \in 1..pieces |-> SubSeq(whole, First(k), Last(k))]

(***************************************************************************)
(* JSON.stringify and JSON.parse on the values above.                      *)
(***************************************************************************)
JNull == [t |-> "null", v |-> 0]
JArr(s) == [t |-> "arr", v |-> s]

Numerals == 0..120
\* property order of the object literals the program builds
KeyOrder == <<"type", "feedCount", "articlesAnalyzed", "data", "error",
              "suggestedTitles", "body">>

RECURSIVE EscapeChars(_)
EscapeChars(cs) ==
  IF cs = <<>> THEN <<>>
  ELSE (CASE Head(cs) = QUOTE -> <<BACKSLASH, QUOTE>>
          [] Head(cs) = BACKSLASH -> <<BACKSLASH, BACKSLASH>>
          [] Head(cs) = NEWLINE -> <<BACKSLASH, "n">>
          [] OTHER -> <<Head(cs)>>)
       \o EscapeChars(Tail(cs))

Quoted(s) == <<QUOTE>> \o EscapeChars(Chars(s)) \o <<QUOTE>>

RECURSIVE JSONstringify(_), StringifyMembers(_, _, _), StringifyElements(_, _)
JSONstringify(val) ==
  CASE val.t = "num" -> <<ToString(val.v)>>
    [] val.t = "str" -> Quoted(val.v)
    [] val.t = "null" -> <<"null">>
    [] val.t = "arr" -> <<"[">> \o StringifyElements(val.v, 1) \o <<"]">>
    [] val.t = "obj" -> <<"{">> \o StringifyMembers(val.v, 1, TRUE) \o <<"}">>

StringifyElements(arr, i) ==
  IF i > Len(arr) THEN <<>>
  ELSE (IF i > 1 THEN <<",">> ELSE <<>>)
       \o JSONstringify(arr[i]) \o StringifyElements(arr, i + 1)

StringifyMembers(rec, k, first) ==
  IF k > Len(KeyOrder) THEN <<>>
  ELSE IF KeyOrder[k] \notin DOMAIN rec THEN StringifyMembers(rec, k + 1, first)
  ELSE (IF first THEN <<>> ELSE <<",">>)
       \o Quoted(KeyOrder[k]) \o <<":">> \o JSONstringify(rec[KeyOrder[k]])
       \o StringifyMembers(rec, k + 1, FALSE)

IsNumeral(atom) == \E n \in Numerals : ToString(n) = atom
NumeralValue(atom) == CHOOSE n \in Numerals : ToString(n) = atom

\* a parse step: ok, the value read, the text left after it
ParseFail == [ok |-> FALSE, val |-> JNull, rest |-> <<>>]
Parsed(val, rest) == [ok |-> TRUE, val |-> val, rest |-> rest]

RECURSIVE ParseValue(_), ParseString(_, _), ParseMembers(_, _),
          ParseElements(_, _)
\* the characters of a string literal after its opening quote
ParseString(text, acc) ==
  IF text = <<>> THEN ParseFail
  ELSE LET c == Head(text) IN
    CASE c = QUOTE -> Parsed(JStr(StringOf(acc)), Tail(text))
      [] c = NEWLINE -> ParseFail
      [] c = BACKSLASH ->
           IF Len(text) < 2 THEN ParseFail
           ELSE (CASE text[2] = QUOTE ->
                        ParseString(SubSeq(text, 3, Len(text)), Append(acc, QUOTE))
                   [] text[2] = BACKSLASH ->
                        ParseString(SubSeq(text, 3, Len(text)), Append(acc, BACKSLASH))
                   [] text[2] = "n" ->
                        ParseString(SubSeq(text, 3, Len(text)), Append(acc, NEWLINE))
                   [] OTHER -> ParseFail)
      [] OTHER -> ParseString(Tail(text), Append(acc, c))

\* the members of an object after "{" or ","
ParseMembers(text, acc) ==
  IF text = <<>> \/ Head(text) # QUOTE THEN ParseFail
  ELSE LET key == ParseString(Tail(text), <<>>) IN
    IF ~key.ok \/ key.rest = <<>> \/ Head(key.rest) # ":" THEN ParseFail
    ELSE LET val == ParseValue(Tail(key.rest)) IN
      IF ~val.ok \/ val.rest = <<>> THEN ParseFail
      ELSE LET obj == (key.val.v :> val.val) @@ acc IN
        CASE Head(val.rest) = "}" -> Parsed(JObj(obj), Tail(val.rest))
          [] Head(val.rest) = "," -> ParseMembers(Tail(val.rest), obj)
          [] OTHER -> ParseFail

\* the elements of an array after "[" or ","
ParseElements(text, acc) ==
  LET val == ParseValue(text) IN
  IF ~val.ok \/ val.rest = <<>> THEN ParseFail
  ELSE CASE Head(val.rest) = "]" ->
              Parsed(JArr(Append(acc, val.val)), Tail(val.rest))
         [] Head(val.rest) = "," ->
              ParseElements(Tail(val.rest), Append(acc, val.val))
         [] OTHER -> ParseFail

ParseValue(text) ==
  IF text = <<>> THEN ParseFail
  ELSE LET c == Head(text) rest == Tail(text) IN
    CASE c = "{" -> IF rest # <<>> /\ Head(rest) = "}"
                    THEN Parsed(JObj(<<>>), Tail(rest))
                    ELSE ParseMembers(rest, <<>>)
      [] c = "[" -> IF rest # <<>> /\ Head(rest) = "]"
                    THEN Parsed(JArr(<<>>), Tail(rest))
                    ELSE ParseElements(rest, <<>>)
      [] c = QUOTE -> ParseString(rest, <<>>)
      [] c = "null" -> Parsed(JNull, rest)
      [] OTHER -> IF IsNumeral(c) THEN Parsed(JNum(NumeralValue(c)), rest)
                  ELSE ParseFail

\* JSON.parse(text): ok is FALSE where JSON.parse throws a SyntaxError
JSONparse(text) ==
  LET r == ParseValue(text) IN
  IF r.ok /\ r.rest = <<>> THEN r ELSE ParseFail

(***************************************************************************)
(* sse-helpers.ts                                                          *)
(***************************************************************************)
DataPrefix == <<"data", ":", " ">>

\* Variant of encodeSSE: no space after the field name.
encodeSSENoSpace(data) ==
  <<"data", ":">> \o JSONstringify(data) \o <<NEWLINE, NEWLINE>>

\* `data: ${json}\n\n`
encodeSSE(data) ==
  DataPrefix \o JSONstringify(data) \o <<NEWLINE, NEWLINE>>

\* null where the line is skipped; else the parsed value
parseSSELine(line) ==
  IF ~StartsWith(line, DataPrefix) THEN JNull
  ELSE LET r == JSONparse(SubSeq(line, Len(DataPrefix) + 1, Len(line))) IN
       IF r.ok THEN r.val ELSE JNull

\* Variant of Truthy: the result is pushed without the null check.
TruthyAlways(val) == TRUE

\* if (event): null, 0 and "" are falsy
Truthy(val) ==
  /\ val.t # "null"
  /\ ~(val.t = "num" /\ val.v = 0)
  /\ ~(val.t = "str" /\ val.v = "")

RECURSIVE ParseLines(_)
ParseLines(lines) ==
  IF lines = <<>> THEN <<>>
  ELSE LET event == parseSSELine(Head(lines)) IN
       (IF Truthy(event) THEN <<event>> ELSE <<>>) \o ParseLines(Tail(lines))

\* Variant of parseSSEChunk: every event of the chunk is returned twice.
parseSSEChunkRepeating(chunk) ==
  ParseLines(SplitLines(chunk, <<>>)) \o ParseLines(SplitLines(chunk, <<>>))

parseSSEChunk(chunk) == ParseLines(SplitLines(chunk, <<>>))

(***************************************************************************)
(* Feed store and staleness evaluation (getFeedsToRefresh).                *)
(***************************************************************************)
FeedIds == {"f1", "f2", "f3"}
NULL == -1                           \* lastFetched: null (never fetched)
HourMs == 60 * 60 * 1000             \* one clock tick
THREE_HOURS_MS == 3 * 60 * 60 * 1000
StartClock == 3 * HourMs
FeedUrl == [f \in FeedIds |-> IF f = "f3" THEN "https://b.example/rss"
                                         ELSE "https://a.example/rss"]

\* elements of an array, as a set
Elems(arr) == {arr[i] : i \in 1..Len(arr)}

\* prisma.rssFeed.findMany({ where: { id: { in: feedIds } } })
FindManyFeeds(store, feedIds) == {f \in DOMAIN store : f \in Elems(feedIds)}

\* Variant of SortsBeforeDesc: null sorts highest (the SQL default), so a
\* descending order puts the never-fetched records first.
SortsBeforeDescNullsFirst(a, b) ==
  IF b = NULL THEN a = NULL ELSE (a = NULL \/ a >= b)

\* orderBy: { lastFetched: "desc" } on MongoDB: null sorts lowest, so a
\* descending order puts the never-fetched records last.  TRUE when a record
\* with lastFetched a may come before one with lastFetched b.
SortsBeforeDesc(a, b) ==
  IF a = NULL THEN b = NULL ELSE (b = NULL \/ a >= b)

\* prisma.rssFeed.findFirst({ where: { url }, select: { lastFetched },
\*                            orderBy: { lastFetched: "desc" } })
FindFirstLastFetched(store, url) ==
  LET same == {g \in DOMAIN store : store[g].url = url}
      first == CHOOSE g \in same :
                 \A h \in same :
                   SortsBeforeDesc(store[g].lastFetched, store[h].lastFetched)
  IN  IF same = {} THEN NULL ELSE store[first].lastFetched

\* Variant of OlderThanThreshold: >= in place of >.
OlderThanThresholdInclusive(clock, lastFetched) ==
  clock - lastFetched >= THREE_HOURS_MS

\* timeSinceLastFetch > THREE_HOURS_MS
OlderThanThreshold(clock, lastFetched) == clock - lastFetched > THREE_HOURS_MS

getFeedsToRefresh(store, clock, feedIds) ==
  {f \in FindManyFeeds(store, feedIds) :
     LET mostRecentFetch == FindFirstLastFetched(store, store[f].url)
     IN  \/ mostRecentFetch = NULL
         \/ OlderThanThreshold(clock, mostRecentFetch)}

(***************************************************************************)
(* Article retrieval (getArticlesByFeedsAndDateRange), by count.           *)
(***************************************************************************)
ARTICLE_LIMIT == 100

RECURSIVE SumOver(_, _)
SumOver(fn, S) ==
  IF S = {} THEN 0
  ELSE LET x == CHOOSE y \in S : TRUE IN fn[x] + SumOver(fn, S \ {x})

Min(a, b) == IF a <= b THEN a ELSE b

\* Variant of getArticlesByFeedsAndDateRange: take is not applied.
getArticlesUnlimited(counts, feedIds, limit) ==
  SumOver(counts, FeedIds \cap Elems(feedIds))

\* articles of the requested feeds inside the window, take: limit
getArticlesByFeedsAndDateRange(counts, feedIds, limit) ==
  Min(SumOver(counts, DOMAIN counts \cap Elems(feedIds)), limit)

\* Stores the request may find: no article in the window, or more than
\* ARTICLE_LIMIT of them over two feeds.
InitialArticleCounts ==
  {[f \in FeedIds |-> 0], [f \in FeedIds |-> IF f = "f2" THEN 0 ELSE 60]}

\* articles one successful refresh may add to the window
NewArticles == {0, 1}

(***************************************************************************)
(* The request.                                                            *)
(***************************************************************************)
NoBody == [json |-> FALSE, feedIds |-> [kind |-> "missing", ids |-> <<>>],
           startDate |-> "", endDate |-> ""]

FeedIdsValues ==
  {[kind |-> "missing", ids |-> <<>>],
   [kind |-> "notArray", ids |-> <<>>],
   [kind |-> "array", ids |-> <<>>],
   [kind |-> "array", ids |-> <<"f1">>],
   [kind |-> "array", ids |-> <<"f1", "f3">>],
   [kind |-> "array", ids |-> <<"f1", "f2">>],
   [kind |-> "array", ids |-> <<"f1", "f1">>],
   [kind |-> "array", ids |-> <<"f9">>]}

\* "undefined" stands for a missing field; "" is the empty string
DateValues == {"undefined", "", "2024-01-01T00:00:00.000Z"}

Bodies ==
  {NoBody} \cup
  [json : {TRUE}, feedIds : FeedIdsValues,
   startDate : DateValues, endDate : DateValues]

Falsy(s) == s \in {"undefined", ""}

\* Variant of FeedIdsInvalid: the length check is missing.
FeedIdsInvalidNoLength(b) ==
  \/ b.feedIds.kind = "missing"
  \/ b.feedIds.kind # "array"

\* !feedIds || !Array.isArray(feedIds) || feedIds.length === 0
FeedIdsInvalid(b) ==
  \/ b.feedIds.kind = "missing"
  \/ b.feedIds.kind # "array"
  \/ Len(b.feedIds.ids) = 0

\* !startDate || !endDate
DatesInvalid(b) == Falsy(b.startDate) \/ Falsy(b.endDate)

(***************************************************************************)
(* Thrown values.                                                          *)
(***************************************************************************)
NoError == [isError |-> FALSE, message |-> ""]
Err(m) == [isError |-> TRUE, message |-> m]
EnqueueTypeError == Err("Invalid state: Controller is already closed")
DbError == Err("Can't reach database server")
ThrownByProducer ==
  {Err("AI stream failed"), [isError |-> FALSE, message |-> "rate limited"]}
Snapshots == {JObj([body |-> JStr("A")]), JObj([body |-> JStr("B")])}

\* error instanceof Error ? error.message : "Unknown error"
ErrorMessage(err) == IF err.isError THEN err.message ELSE "Unknown error"

(***************************************************************************)
(* The start callback of the ReadableStream.                               *)
(***************************************************************************)
\* Variant of RefreshingSent: the refreshing event is sent unconditionally.
RefreshingSentAlways(toRefresh) == TRUE

\* if (feedsToRefresh.length > 0) send(refreshing); send(analyzing)
RefreshingSent(toRefresh) == Cardinality(toRefresh) > 0

StatusEvents(toRefresh, feedIds) ==
  (IF RefreshingSent(toRefresh)
   THEN <<RefreshingEvent(Cardinality(toRefresh))>> ELSE <<>>)
  \o <<AnalyzingEvent(Len(feedIds))>>

\* Variant of PartialEvents: a snapshot equal to the one sent last is
\* coalesced with it.
PartialEventsCoalesced(snapshot) ==
  IF events # <<>> /\ events[Len(events)] = PartialEvent(snapshot)
  THEN <<>> ELSE <<PartialEvent(snapshot)>>

\* send({type: "partial", data: partialObject}) of the for-await loop
PartialEvents(snapshot) == <<PartialEvent(snapshot)>>

\* Variant of CompletionEvents: the stream is closed with no complete event.
CompletionEventsMissing == <<>>

\* send({type: "complete"}) after the loop
CompletionEvents == <<CompleteEvent>>

\* send({type: "error", error: errorMessage}) of the catch block
CatchEvents(err) == <<ErrorEvent(ErrorMessage(err))>>

\* catch (error) { send(error event); controller.close() }: enqueue on a
\* cancelled stream throws, and nothing catches that second exception.
Catch(err) ==
  /\ caught' = err
  /\ pc' = "done"
  /\ IF cancelled
     THEN /\ escaped' = TRUE
          /\ UNCHANGED <<events, closed>>
     ELSE /\ events' = events \o CatchEvents(err)
          /\ closed' = TRUE
          /\ UNCHANGED escaped

\* The try block sends evs and goes on to next; a send on a cancelled stream
\* throws the TypeError of controller.enqueue into the catch block.
SendThen(evs, next) ==
  IF evs # <<>> /\ cancelled
  THEN Catch(EnqueueTypeError)
  ELSE /\ events' = events \o evs
       /\ pc' = next
       /\ UNCHANGED <<closed, escaped, caught>>

ServerInit ==
  /\ feeds \in [FeedIds -> {[url |-> u, lastFetched |-> t] :
                              u \in {"https://a.example/rss", "https://b.example/rss"},
                              t \in {NULL, 0, HourMs}}]
  /\ \A f \in FeedIds : feeds[f].url = FeedUrl[f]
  /\ articleCount \in InitialArticleCounts
  /\ now = StartClock
  /\ body = NoBody
  /\ pc = "idle"
  /\ httpStatus = 0
  /\ jsonError = ""
  /\ streamOpen = FALSE
  /\ events = <<>>
  /\ closed = FALSE
  /\ cancelled = FALSE
  /\ escaped = FALSE
  /\ caught = NoError
  /\ feedsToRefresh = {}
  /\ genToRefresh = {}
  /\ pending = {}
  /\ refreshed = {}
  /\ evaluations = 0
  /\ articles = NULL
  /\ producerInvoked = FALSE
  /\ produced = <<>>
  /\ producerEnded = FALSE

\* POST: req.json(), validation, construction of the stream
Post(b) ==
  /\ UNCHANGED <<codecVars, clientVars, storeVars, restVars>>
  /\ pc = "idle"
  /\ body' = b
  /\ IF ~b.json
     THEN /\ httpStatus' = 500
          /\ jsonError' = "Failed to generate newsletter: Unexpected end of JSON input"
          /\ pc' = "rejected"
          /\ UNCHANGED streamOpen
     ELSE IF FeedIdsInvalid(b)
     THEN /\ httpStatus' = 400
          /\ jsonError' = "feedIds is required and must be a non-empty array"
          /\ pc' = "rejected"
          /\ UNCHANGED streamOpen
     ELSE IF DatesInvalid(b)
     THEN /\ httpStatus' = 400
          /\ jsonError' = "startDate and endDate are required"
          /\ pc' = "rejected"
          /\ UNCHANGED streamOpen
     ELSE /\ httpStatus' = 200
          /\ jsonError' = ""
          /\ streamOpen' = TRUE
          /\ pc' = "route_check"
  /\ UNCHANGED <<feeds, articleCount, now, events, closed, cancelled, escaped,
                 caught, feedsToRefresh, genToRefresh, pending, refreshed,
                 evaluations, articles, producerInvoked, produced, producerEnded>>

\* await getFeedsToRefresh(feedIds); send refreshing?; send analyzing
RouteGetFeedsToRefresh(ok) ==
  /\ UNCHANGED <<codecVars, clientVars, storeVars, restVars>>
  /\ pc = "route_check"
  /\ evaluations' = evaluations + 1
  /\ IF ok
     THEN LET r == getFeedsToRefresh(feeds, now, body.feedIds.ids) IN
          /\ feedsToRefresh' = r
          /\ SendThen(StatusEvents(r, body.feedIds.ids), "gen_auth")
     ELSE /\ Catch(DbError)
          /\ UNCHANGED feedsToRefresh
  /\ UNCHANGED <<feeds, articleCount, now, body, httpStatus, jsonError,
                 streamOpen, cancelled, genToRefresh, pending, refreshed,
                 articles, producerInvoked, produced, producerEnded>>

\* generateNewsletterStream: auth() and getUserByClerkId
GenAuth(outcome) ==
  /\ UNCHANGED <<codecVars, clientVars, storeVars, restVars>>
  /\ pc = "gen_auth"
  /\ IF outcome = "ok"
     THEN /\ pc' = "gen_check"
          /\ UNCHANGED <<events, closed, escaped, caught>>
     ELSE Catch(Err(outcome))
  /\ UNCHANGED <<feeds, articleCount, now, body, httpStatus, jsonError,
                 streamOpen, cancelled, feedsToRefresh, genToRefresh, pending,
                 refreshed, evaluations, articles, producerInvoked, produced,
                 producerEnded>>

\* const feedsToRefresh = await getFeedsToRefresh(params.feedIds), then the
\* Promise.allSettled batch is started when the result is not empty
GenGetFeedsToRefresh(ok) ==
  /\ UNCHANGED <<codecVars, clientVars, storeVars, restVars>>
  /\ pc = "gen_check"
  /\ evaluations' = evaluations + 1
  /\ IF ok
     THEN LET r == getFeedsToRefresh(feeds, now, body.feedIds.ids) IN
          /\ genToRefresh' = r
          /\ pending' = r
          /\ pc' = IF Cardinality(r) > 0 THEN "gen_refresh" ELSE "gen_articles"
          /\ UNCHANGED <<events, closed, escaped, caught>>
     ELSE /\ Catch(DbError)
          /\ UNCHANGED <<genToRefresh, pending>>
  /\ UNCHANGED <<feeds, articleCount, now, body, httpStatus, jsonError,
                 streamOpen, cancelled, feedsToRefresh, refreshed,
                 articles, producerInvoked, produced, producerEnded>>

\* Variant of RejectionThrows: the batch is awaited with Promise.all.
RejectionThrowsAsPromiseAll == TRUE

\* Promise.allSettled: a rejected refresh does not reject the batch
RejectionThrows == FALSE

\* fetchAndStoreFeed(feedId) of the batch settles: fulfilled (the feed was
\* fetched, its articles stored, lastFetched set to the time of the fetch) or
\* rejected.  Promise.allSettled resolves once every refresh has settled.
FetchAndStoreFeed(f, ok, added) ==
  /\ UNCHANGED <<codecVars, clientVars, storeVars, restVars>>
  /\ pc = "gen_refresh"
  /\ f \in pending
  /\ pending' = pending \ {f}
  /\ IF ok
     THEN /\ feeds' = [feeds EXCEPT ![f].lastFetched = now]
          /\ articleCount' = [articleCount EXCEPT ![f] = @ + added]
          /\ refreshed' = refreshed \cup {<<f, "fulfilled">>}
     ELSE /\ added = 0
          /\ refreshed' = refreshed \cup {<<f, "rejected">>}
          /\ UNCHANGED <<feeds, articleCount>>
  /\ IF ~ok /\ RejectionThrows
     THEN Catch(Err("Failed to fetch feed"))
     ELSE /\ pc' = IF pending' = {} THEN "gen_articles" ELSE "gen_refresh"
          /\ UNCHANGED <<events, closed, escaped, caught>>
  /\ UNCHANGED <<now, body, httpStatus, jsonError, streamOpen, cancelled,
                 feedsToRefresh, genToRefresh, evaluations, articles,
                 producerInvoked, produced, producerEnded>>

\* Variant of NoArticles: the empty check is missing.
NoArticlesUnchecked(n) == FALSE

\* articles.length === 0
NoArticles(n) == n = 0

\* getArticlesByFeedsAndDateRange(..., 100); throw when empty; streamObject;
\* back in the endpoint: send metadata
GenGetArticles(ok) ==
  /\ UNCHANGED <<codecVars, clientVars, storeVars, restVars>>
  /\ pc = "gen_articles"
  /\ IF ~ok
     THEN /\ Catch(Err("Failed to fetch articles from database"))
          /\ UNCHANGED <<articles, producerInvoked>>
     ELSE LET n == getArticlesByFeedsAndDateRange(articleCount,
                                                   body.feedIds.ids,
                                                   ARTICLE_LIMIT) IN
          /\ articles' = n
          /\ IF NoArticles(n)
             THEN /\ Catch(Err("No articles found for the selected feeds and date range"))
                  /\ UNCHANGED producerInvoked
             ELSE /\ producerInvoked' = TRUE
                  /\ SendThen(<<MetadataEvent(n)>>, "streaming")
  /\ UNCHANGED <<feeds, articleCount, now, body, httpStatus, jsonError,
                 streamOpen, cancelled, feedsToRefresh, genToRefresh, pending,
                 refreshed, evaluations, produced, producerEnded>>

\* for await (const partialObject of stream): the producer yields a snapshot
StreamYield(snapshot) ==
  /\ UNCHANGED <<codecVars, clientVars, storeVars, restVars>>
  /\ pc = "streaming"
  /\ Len(produced) < MaxSnapshots
  /\ produced' = Append(produced, snapshot)
  /\ SendThen(PartialEvents(snapshot), "streaming")
  /\ UNCHANGED <<feeds, articleCount, now, body, httpStatus, jsonError,
                 streamOpen, cancelled, feedsToRefresh, genToRefresh, pending,
                 refreshed, evaluations, articles, producerInvoked, producerEnded>>

\* the producer is exhausted: send complete; controller.close()
StreamEnd ==
  /\ UNCHANGED <<codecVars, clientVars, storeVars, restVars>>
  /\ pc = "streaming"
  /\ producerEnded' = TRUE
  /\ IF cancelled
     THEN Catch(EnqueueTypeError)
     ELSE /\ events' = events \o CompletionEvents
          /\ closed' = TRUE
          /\ pc' = "done"
          /\ UNCHANGED <<escaped, caught>>
  /\ UNCHANGED <<feeds, articleCount, now, body, httpStatus, jsonError,
                 streamOpen, cancelled, feedsToRefresh, genToRefresh, pending,
                 refreshed, evaluations, articles, producerInvoked, produced>>

\* the producer throws while the loop awaits its next snapshot
StreamThrow(err) ==
  /\ UNCHANGED <<codecVars, clientVars, storeVars, restVars>>
  /\ pc = "streaming"
  /\ Catch(err)
  /\ UNCHANGED <<feeds, articleCount, now, body, httpStatus, jsonError,
                 streamOpen, cancelled, feedsToRefresh, genToRefresh, pending,
                 refreshed, evaluations, articles, producerInvoked, produced,
                 producerEnded>>

\* another request's refresh stores an article of a requested feed while
\* this request's generation runs (once for the feed, in this model)
ArticleStoredMeanwhile(f) ==
  /\ UNCHANGED <<codecVars, clientVars, storeVars, restVars>>
  /\ pc = "streaming"
  /\ f = body.feedIds.ids[1]
  /\ \E c \in InitialArticleCounts : articleCount[f] = c[f]
  /\ articleCount' = [articleCount EXCEPT ![f] = @ + 1]
  /\ UNCHANGED <<feeds, now, body, pc, httpStatus, jsonError, streamOpen,
                 events, closed, cancelled, escaped, caught, feedsToRefresh,
                 genToRefresh, pending, refreshed, evaluations, articles,
                 producerInvoked, produced, producerEnded>>

\* the client cancels the response body while the handler is running
ClientCancel ==
  /\ UNCHANGED <<codecVars, clientVars, storeVars, restVars>>
  /\ streamOpen /\ ~closed /\ ~cancelled /\ pc # "done"
  /\ cancelled' = TRUE
  /\ UNCHANGED <<feeds, articleCount, now, body, pc, httpStatus, jsonError,
                 streamOpen, events, closed, escaped, caught, feedsToRefresh,
                 genToRefresh, pending, refreshed, evaluations,
                 articles, producerInvoked, produced, producerEnded>>

\* time passes; the handler reads the clock in getFeedsToRefresh and in the
\* refresh, so later ticks change nothing it can observe
Tick ==
  /\ UNCHANGED <<codecVars, clientVars, storeVars, restVars>>
  /\ now < MaxClock * HourMs
  /\ pc \in {"idle", "route_check", "gen_auth", "gen_check", "gen_refresh"}
  /\ now' = now + HourMs
  /\ UNCHANGED <<feeds, articleCount, body, pc, httpStatus, jsonError,
                 streamOpen, events, closed, cancelled, escaped, caught,
                 feedsToRefresh, genToRefresh, pending, refreshed, evaluations,
                 articles, producerInvoked, produced, producerEnded>>

(***************************************************************************)
(* The codec applied to one event: encodeSSE, the line cut from the        *)
(* message, parseSSELine.                                                  *)
(***************************************************************************)
PartialPayloads ==
  { JObj(<<>>),
    JObj([body |-> JStr("A")]),
    JObj([body |-> JStr("line1\nline2")]),
    JObj([suggestedTitles |-> JArr(<<JStr("say \"hi\""), JStr("")>>)]),
    JObj([body |-> JStr("data: {}"), suggestedTitles |-> JArr(<<>>)]) }

ErrorTexts ==
  { "No articles found for the selected feeds and date range",
    "Unknown error", "", "line1\nline2", "say \"hi\"", "C:\\feeds",
    "data: {}" }

CodecEvents ==
  {RefreshingEvent(n) : n \in 0..MaxFeedCount}
    \cup {AnalyzingEvent(n) : n \in 0..MaxFeedCount}
    \cup {MetadataEvent(n) : n \in {0, 1, 60, ARTICLE_LIMIT}}
    \cup {PartialEvent(d) : d \in PartialPayloads}
    \cup {CompleteEvent}
    \cup {ErrorEvent(m) : m \in ErrorTexts}

CodecInit ==
  /\ codecEvent \in CodecEvents
  /\ codecText = <<>>
  /\ codecResult = JNull
  /\ codecPc = "event"

CodecIdle ==
  /\ codecEvent = CompleteEvent
  /\ codecText = <<>>
  /\ codecResult = JNull
  /\ codecPc = "off"

EncodeSSE ==
  /\ codecPc = "event"
  /\ codecText' = encodeSSE(codecEvent)
  /\ codecPc' = "encoded"
  /\ UNCHANGED <<codecEvent, codecResult, serverVars, clientVars, storeVars,
                 restVars>>

\* chunk.split("\n"): the line of the message, as parseSSEChunk cuts it
SplitLine ==
  /\ codecPc = "encoded"
  /\ codecText' = Head(SplitLines(codecText, <<>>))
  /\ codecPc' = "line"
  /\ UNCHANGED <<codecEvent, codecResult, serverVars, clientVars, storeVars,
                 restVars>>

ParseSSELine ==
  /\ codecPc = "line"
  /\ codecResult' = parseSSELine(codecText)
  /\ codecPc' = "parsed"
  /\ UNCHANGED <<codecEvent, codecText, serverVars, clientVars, storeVars,
                 restVars>>

NextCodec == EncodeSSE \/ SplitLine \/ ParseSSELine

(***************************************************************************)
(* useNewsletterStream: generate and handleStreamEvent.                    *)
(***************************************************************************)
\* event sequences the endpoint's start callback enqueues
RECURSIVE PartialRuns(_)
PartialRuns(k) ==
  IF k = 0 THEN {<<>>}
  ELSE PartialRuns(k - 1)
         \cup {Append(run, PartialEvent(d)) :
                 run \in {r \in PartialRuns(k - 1) : Len(r) = k - 1},
                 d \in Snapshots}

\* Variant of StreamBodies: the analyzing status comes after the metadata.
StreamBodiesStatusLate ==
  {<<RefreshingEvent(1), MetadataEvent(60), AnalyzingEvent(2), CompleteEvent>>}

StreamBodies ==
  LET heads == {<<AnalyzingEvent(2)>>, <<RefreshingEvent(1), AnalyzingEvent(2)>>}
      noArticles ==
        ErrorEvent("No articles found for the selected feeds and date range")
      ends == {CompleteEvent, ErrorEvent("AI stream failed")}
      tails == {<<noArticles>>}
                 \cup {<<MetadataEvent(60)>> \o run \o <<end>> :
                         run \in PartialRuns(MaxPartials), end \in ends}
  IN {<<ErrorEvent(DbError.message)>>} \cup {h \o t : h \in heads, t \in tails}

RECURSIVE EncodeAll(_)
EncodeAll(evs) ==
  IF evs = <<>> THEN <<>> ELSE encodeSSE(Head(evs)) \o EncodeAll(Tail(evs))

Responses ==
  {[ok |-> FALSE, error |-> m, events |-> <<>>] :
     m \in {"feedIds is required and must be a non-empty array",
            "startDate and endDate are required", ""}}
    \cup {[ok |-> TRUE, error |-> "", events |-> evs] : evs \in StreamBodies}

Toast(kind, message) == [kind |-> kind, message |-> message]

\* the state handleStreamEvent reads and writes, and what it threw
HookState ==
  [loadingPhase |-> loadingPhase, feedCount |-> feedCount,
   articlesAnalyzed |-> articlesAnalyzed, newsletter |-> newsletter,
   articleCountRef |-> articleCountRef, toasts |-> toasts,
   handled |-> handled, thrown |-> NoError]

\* Variant of PartialContent: the data is merged into the previous content.
PartialContentMerged(previous, data) ==
  IF previous.t = "obj" /\ data.t = "obj" THEN JObj(data.v @@ previous.v)
  ELSE data

\* setNewsletter(event.data)
PartialContent(previous, data) == data

\* Variant of handleStreamEvent: complete clears the counters.
handleStreamEventCompleteResets(st0, event) ==
  LET st == [st0 EXCEPT !.handled = Append(@, event)]
      ty == TypeOf(event)
  IN CASE ty = "refreshing" ->
            [st EXCEPT !.loadingPhase = "refreshing",
                       !.feedCount = event.v.feedCount.v]
       [] ty = "analyzing" ->
            [st EXCEPT !.loadingPhase = "analyzing",
                       !.feedCount = event.v.feedCount.v]
       [] ty = "metadata" ->
            [st EXCEPT !.articleCountRef = event.v.articlesAnalyzed.v,
                       !.articlesAnalyzed = event.v.articlesAnalyzed.v,
                       !.loadingPhase = "generating"]
       [] ty = "partial" ->
            [st EXCEPT !.newsletter = PartialContent(st.newsletter, event.v.data),
                       !.loadingPhase = "generating"]
       [] ty = "complete" ->
            [st EXCEPT !.loadingPhase = "complete",
                       !.articlesAnalyzed = 0,
                       !.feedCount = 0,
                       !.toasts = Append(@, Toast("success",
                          <<"Newsletter generated from ",
                            ToString(st.articleCountRef), " articles!">>))]
       [] ty = "error" -> [st EXCEPT !.thrown = Err(event.v.error.v)]
       [] OTHER -> st

\* switch (event.type) of handleStreamEvent
handleStreamEvent(st0, event) ==
  LET st == [st0 EXCEPT !.handled = Append(@, event)]
      ty == TypeOf(event)
  IN CASE ty = "refreshing" ->
            [st EXCEPT !.loadingPhase = "refreshing",
                       !.feedCount = event.v.feedCount.v]
       [] ty = "analyzing" ->
            [st EXCEPT !.loadingPhase = "analyzing",
                       !.feedCount = event.v.feedCount.v]
       [] ty = "metadata" ->
            [st EXCEPT !.articleCountRef = event.v.articlesAnalyzed.v,
                       !.articlesAnalyzed = event.v.articlesAnalyzed.v,
                       !.loadingPhase = "generating"]
       [] ty = "partial" ->
            [st EXCEPT !.newsletter = PartialContent(st.newsletter, event.v.data),
                       !.loadingPhase = "generating"]
       [] ty = "complete" ->
            [st EXCEPT !.loadingPhase = "complete",
                       !.toasts = Append(@, Toast("success",
                          <<"Newsletter generated from ",
                            ToString(st.articleCountRef), " articles!">>))]
       [] ty = "error" -> [st EXCEPT !.thrown = Err(event.v.error.v)]
       [] OTHER -> st

\* Variant of HandleEvents: the loop goes on after a throw.
RECURSIVE HandleEventsThrough(_, _)
HandleEventsThrough(st, evs) ==
  IF evs = <<>> THEN st
  ELSE HandleEventsThrough(handleStreamEvent(st, Head(evs)), Tail(evs))

\* for (const event of events) handleStreamEvent(event): stops at a throw
RECURSIVE HandleEvents(_, _)
HandleEvents(st, evs) ==
  IF evs = <<>> \/ st.thrown # NoError THEN st
  ELSE HandleEvents(handleStreamEvent(st, Head(evs)), Tail(evs))

ClientInit ==
  /\ sent = <<>>
  /\ wire = <<>>
  /\ handled = <<>>
  /\ clientPc = "idle"
  /\ isGenerating = FALSE
  /\ loadingPhase = "idle"
  /\ newsletter = JNull
  /\ articlesAnalyzed = 0
  /\ feedCount = 0
  /\ articleCountRef = 0
  /\ toasts = <<>>

ClientIdle ==
  /\ sent = <<>>
  /\ wire = <<>>
  /\ handled = <<>>
  /\ clientPc = "off"
  /\ isGenerating = FALSE
  /\ loadingPhase = "idle"
  /\ newsletter = JNull
  /\ articlesAnalyzed = 0
  /\ feedCount = 0
  /\ articleCountRef = 0
  /\ toasts = <<>>

\* Variant of CatchAndFinally: the content shown so far is kept.
CatchAndFinallyKeepsContent(st, err) ==
  /\ toasts' = Append(st.toasts,
        Toast("error", <<IF err.isError THEN err.message
                         ELSE "Failed to generate newsletter">>))
  /\ newsletter' = st.newsletter
  /\ loadingPhase' = "idle"
  /\ isGenerating' = FALSE
  /\ clientPc' = "done"
  /\ feedCount' = st.feedCount
  /\ articlesAnalyzed' = st.articlesAnalyzed
  /\ articleCountRef' = st.articleCountRef
  /\ handled' = st.handled

\* catch (error) { toast.error; setNewsletter(null); setLoadingPhase("idle") }
\* finally { setIsGenerating(false) }, after the try block left the hook in st
CatchAndFinally(st, err) ==
  /\ toasts' = Append(st.toasts,
        Toast("error", <<IF err.isError THEN err.message
                         ELSE "Failed to generate newsletter">>))
  /\ newsletter' = JNull
  /\ loadingPhase' = "idle"
  /\ isGenerating' = FALSE
  /\ clientPc' = "done"
  /\ feedCount' = st.feedCount
  /\ articlesAnalyzed' = st.articlesAnalyzed
  /\ articleCountRef' = st.articleCountRef
  /\ handled' = st.handled

\* generate(params): the state reset, up to the fetch
Generate ==
  /\ clientPc = "idle"
  /\ isGenerating' = TRUE
  /\ newsletter' = JNull
  /\ articlesAnalyzed' = 0
  /\ feedCount' = 0
  /\ loadingPhase' = "idle"
  /\ articleCountRef' = 0
  /\ clientPc' = "fetching"
  /\ UNCHANGED <<sent, wire, handled, toasts, serverVars, codecVars, storeVars,
                 restVars>>

\* await fetch(...); if (!response.ok) throw; getReader()
FetchResponds(response) ==
  /\ clientPc = "fetching"
  /\ IF ~response.ok
     THEN /\ CatchAndFinally(HookState,
                Err(IF response.error # "" THEN response.error
                    ELSE "Failed to generate newsletter"))
          /\ UNCHANGED <<sent, wire>>
     ELSE /\ sent' = response.events
          /\ wire' = EncodeAll(response.events)
          /\ clientPc' = "reading"
          /\ UNCHANGED <<handled, isGenerating, loadingPhase, newsletter,
                         articlesAnalyzed, feedCount, articleCountRef, toasts>>
  /\ UNCHANGED <<serverVars, codecVars, storeVars, restVars>>

\* the body of the read loop on one decoded chunk: parseSSEChunk, then
\* handleStreamEvent on each event; a throw goes to catch and finally
ProcessChunk(chunk) ==
  \E st \in {HandleEvents(HookState, parseSSEChunk(chunk))} :
    IF st.thrown # NoError
    THEN CatchAndFinally(st, st.thrown)
    ELSE /\ loadingPhase' = st.loadingPhase
         /\ feedCount' = st.feedCount
         /\ articlesAnalyzed' = st.articlesAnalyzed
         /\ newsletter' = st.newsletter
         /\ articleCountRef' = st.articleCountRef
         /\ toasts' = st.toasts
         /\ handled' = st.handled
         /\ UNCHANGED <<clientPc, isGenerating>>

\* one turn of the read loop on a fragment of n atoms
ReaderRead(n) ==
  /\ clientPc = "reading"
  /\ n \in 1..Len(wire)
  /\ wire' = SubSeq(wire, n + 1, Len(wire))
  /\ ProcessChunk(SubSeq(wire, 1, n))
  /\ UNCHANGED <<sent, serverVars, codecVars, storeVars, restVars>>

\* Variant of ReaderDone: the end of the body is taken for completion.
ReaderDoneMarksComplete ==
  /\ clientPc = "reading"
  /\ wire = <<>>
  /\ isGenerating' = FALSE
  /\ loadingPhase' = "complete"
  /\ clientPc' = "done"
  /\ UNCHANGED <<sent, wire, handled, newsletter, articlesAnalyzed,
                 feedCount, articleCountRef, toasts, serverVars, codecVars, storeVars,
                 restVars>>

\* reader.read() reports done: break, finally
ReaderDone ==
  /\ clientPc = "reading"
  /\ wire = <<>>
  /\ isGenerating' = FALSE
  /\ clientPc' = "done"
  /\ UNCHANGED <<sent, wire, handled, loadingPhase, newsletter,
                 articlesAnalyzed, feedCount, articleCountRef, toasts,
                 serverVars, codecVars, storeVars, restVars>>

\* the longest encoded response body, in atoms
MaxWire == CHOOSE n \in 0..200 :
  /\ \E evs \in StreamBodies : Len(EncodeAll(evs)) = n
  /\ \A evs \in StreamBodies : Len(EncodeAll(evs)) <= n

NextStream ==
  \/ Generate
  \/ \E response \in Responses : FetchResponds(response)
  \/ \E n \in 1..MaxWire : ReaderRead(n)
  \/ ReaderDone

(***************************************************************************)
(* The same hook on a live response: the body is open, each event the      *)
(* server enqueues arrives as one chunk, and the transport may end after   *)
(* any of them.                                                            *)
(***************************************************************************)
LivePayloads ==
  { JObj(<<>>),
    JObj([body |-> JStr("A")]),
    JObj([suggestedTitles |-> JArr(<<JStr("B")>>)]) }

LiveEvents ==
  {RefreshingEvent(1), AnalyzingEvent(2), MetadataEvent(60), CompleteEvent,
   ErrorEvent("AI stream failed")}
    \cup {PartialEvent(d) : d \in LivePayloads}

\* await fetch(...): response.ok, with a body nothing was written to yet
FetchOpensStream ==
  /\ clientPc = "fetching"
  /\ clientPc' = "reading"
  /\ sent' = <<>>
  /\ wire' = <<>>
  /\ UNCHANGED <<handled, isGenerating, loadingPhase, newsletter,
                 articlesAnalyzed, feedCount, articleCountRef, toasts,
                 serverVars, codecVars, storeVars, restVars>>

\* one turn of the read loop on the chunk of one enqueued event
ReaderReadEvent(event) ==
  /\ clientPc = "reading"
  /\ Len(sent) < MaxEvents
  /\ sent' = Append(sent, event)
  /\ ProcessChunk(encodeSSE(event))
  /\ UNCHANGED <<wire, serverVars, codecVars, storeVars, restVars>>

\* one turn of the read loop on a chunk that holds two enqueued events
ReaderReadEvents(first, second) ==
  /\ clientPc = "reading"
  /\ Len(sent) + 1 < MaxEvents
  /\ sent' = sent \o <<first, second>>
  /\ ProcessChunk(encodeSSE(first) \o encodeSSE(second))
  /\ UNCHANGED <<wire, serverVars, codecVars, storeVars, restVars>>

NextEvents ==
  \/ Generate
  \/ FetchOpensStream
  \/ \E event \in LiveEvents : ReaderReadEvent(event)
  \/ \E first, second \in LiveEvents : ReaderReadEvents(first, second)
  \/ ReaderDone

(***************************************************************************)
(* Several generate calls on one useNewsletterStream: the calls share the  *)
(* hook's state, and each runs between its awaits on its own response.     *)
(* clientPc is not the position of any one call here; calls holds them.    *)
(***************************************************************************)
MaxCalls == 2        \* generate calls made on one hook at most

CallIds == 1..MaxCalls

OverlapEvents ==
  {PartialEvent(JObj([body |-> JStr("A")])), CompleteEvent,
   ErrorEvent("AI stream failed")}

\* generate(params) of call c: the state reset, up to the fetch
CallGenerate(c) ==
  /\ calls[c] = "notStarted"
  /\ calls' = [calls EXCEPT ![c] = "fetching"]
  /\ isGenerating' = TRUE
  /\ newsletter' = JNull
  /\ articlesAnalyzed' = 0
  /\ feedCount' = 0
  /\ loadingPhase' = "idle"
  /\ articleCountRef' = 0
  /\ UNCHANGED <<sent, wire, handled, clientPc, toasts, serverVars,
                 codecVars, storeVars, bulkVars, pageVars>>

\* await fetch(...) of call c; if (!response.ok) throw; getReader()
CallFetchResponds(c, ok) ==
  /\ calls[c] = "fetching"
  /\ IF ~ok
     THEN /\ CatchAndFinally(HookState, Err("Failed to generate newsletter"))
          /\ calls' = [calls EXCEPT ![c] = "finished"]
     ELSE /\ calls' = [calls EXCEPT ![c] = "reading"]
          /\ UNCHANGED <<handled, clientPc, isGenerating, loadingPhase,
                         newsletter, articlesAnalyzed, feedCount,
                         articleCountRef, toasts>>
  /\ UNCHANGED <<sent, wire, serverVars, codecVars, storeVars, bulkVars,
                 pageVars>>

\* one turn of the read loop of call c on the chunk of one event
CallReaderRead(c, event) ==
  /\ calls[c] = "reading"
  /\ Len(sent) < MaxEvents
  /\ sent' = Append(sent, event)
  /\ ProcessChunk(encodeSSE(event))
  /\ calls' = [calls EXCEPT ![c] = IF TypeOf(event) = "error"
                                   THEN "finished" ELSE "reading"]
  /\ UNCHANGED <<wire, serverVars, codecVars, storeVars, bulkVars, pageVars>>

\* reader.read() of call c reports done: break, finally
CallReaderDone(c) ==
  /\ calls[c] = "reading"
  /\ isGenerating' = FALSE
  /\ calls' = [calls EXCEPT ![c] = "finished"]
  /\ UNCHANGED <<sent, wire, handled, clientPc, loadingPhase, newsletter,
                 articlesAnalyzed, feedCount, articleCountRef, toasts,
                 serverVars, codecVars, storeVars, bulkVars, pageVars>>

NextOverlap ==
  \/ \E c \in CallIds : CallGenerate(c)
  \/ \E c \in CallIds, ok \in BOOLEAN : CallFetchResponds(c, ok)
  \/ \E c \in CallIds, event \in OverlapEvents : CallReaderRead(c, event)
  \/ \E c \in CallIds : CallReaderDone(c)

(***************************************************************************)
(* NewsletterGenerationPage: the generation parameters, the effect that    *)
(* starts the generation, and the stream reader written inline in          *)
(* handleGenerate (components/dashboard/newsletter-generation-page.tsx).   *)
(* The page's isGenerating, newsletter and articlesAnalyzed are the        *)
(* variables of the same names; localArticlesAnalyzed is articleCountRef.  *)
(***************************************************************************)
MaxStarts == 2       \* handleGenerate calls of one page at most

\* searchParams.get(name): null, or the text of the parameter
Missing == [has |-> FALSE, text |-> <<>>]
Given(text) == [has |-> TRUE, text |-> text]

\* !value on string | null
NotGiven(param) == ~param.has \/ param.text = <<>>

NullParams == [isNull |-> TRUE, feedIds |-> JNull, dates |-> <<>>]

\* params: null where a parameter is missing or JSON.parse(feedIds) throws
ParseParams(sp) ==
  IF NotGiven(sp.feedIds) \/ NotGiven(sp.startDate) \/ NotGiven(sp.endDate)
  THEN NullParams
  ELSE LET r == JSONparse(sp.feedIds.text) IN
       IF r.ok
       THEN [isNull |-> FALSE, feedIds |-> r.val,
             dates |-> <<sp.startDate.text, sp.endDate.text>>]
       ELSE NullParams

FeedIdsTexts ==
  LET one == JSONstringify(JArr(<<JStr("f1")>>))
      two == JSONstringify(JArr(<<JStr("f1"), JStr("f2")>>))
  IN {Missing, Given(<<>>), Given(one), Given(two),
      Given(SubSeq(one, 1, Len(one) - 1))}

SearchParams ==
  [feedIds : FeedIdsTexts,
   startDate : {Missing, Given(<<"2025-01-01">>)},
   endDate : {Missing, Given(<<"2025-01-08">>)}]

\* Variant of EffectReturns: the ref is not consulted.
EffectReturnsWithoutRef(p, started) == p.isNull

\* if (!params || hasStartedRef.current) return
EffectReturns(p, started) == p.isNull \/ started

\* handleGenerate(params), up to the fetch
HandleGenerateCalled(p) ==
  /\ isGenerating' = TRUE
  /\ newsletter' = JNull
  /\ articlesAnalyzed' = 0
  /\ toasts' = Append(toasts, Toast("info",
        <<"Preparing ", ToString(Len(p.feedIds.v)), " feed",
          IF Len(p.feedIds.v) > 1 THEN "s" ELSE "", "...">>))
  /\ clientPc' = "fetching"
  /\ sent' = <<>>
  /\ handled' = <<>>

\* a render with the given URL parameters, and the effect after it
PageRender(sp) ==
  \E p \in {ParseParams(sp)} :
    /\ params' = p
    /\ IF EffectReturns(p, hasStartedRef)
       THEN UNCHANGED <<hasStartedRef, starts, isGenerating, newsletter,
                        articlesAnalyzed, toasts, clientPc, sent, handled>>
       ELSE /\ starts < MaxStarts
            /\ hasStartedRef' = TRUE
            /\ starts' = starts + 1
            /\ HandleGenerateCalled(p)
    /\ UNCHANGED <<wire, loadingPhase, feedCount, articleCountRef,
                   serverVars, codecVars, storeVars, bulkVars, calls>>

\* catch (error) { toast.error; setNewsletter(null) } finally
\* { setIsGenerating(false) } of handleGenerate
PageCatchAndFinally(err) ==
  /\ toasts' = Append(toasts,
        Toast("error", <<IF err.isError THEN err.message
                         ELSE "Failed to generate newsletter">>))
  /\ newsletter' = JNull
  /\ isGenerating' = FALSE
  /\ clientPc' = "done"

\* await fetch(...); if (!response.ok) throw; getReader()
PageFetchResponds(ok, error) ==
  /\ clientPc = "fetching"
  /\ IF ~ok
     THEN PageCatchAndFinally(
            Err(IF error # "" THEN error ELSE "Failed to generate newsletter"))
     ELSE /\ clientPc' = "reading"
          /\ UNCHANGED <<toasts, newsletter, isGenerating>>
  /\ UNCHANGED <<sent, wire, handled, loadingPhase, articlesAnalyzed,
                 feedCount, articleCountRef, serverVars, codecVars, storeVars,
                 restVars>>

\* the state the inline reader reads and writes
PageState ==
  [articlesAnalyzed |-> articlesAnalyzed, newsletter |-> newsletter,
   articleCountRef |-> articleCountRef, toasts |-> toasts,
   handled |-> handled]

\* the branches on data.type inside the inner try; the throw of the error
\* branch is caught by the inner catch, which only logs it
PageHandleData(st0, data) ==
  LET st == [st0 EXCEPT !.handled = Append(@, data)]
      ty == TypeOf(data)
  IN CASE ty = "metadata" ->
            [st EXCEPT !.articleCountRef = data.v.articlesAnalyzed.v,
                       !.articlesAnalyzed = data.v.articlesAnalyzed.v,
                       !.toasts = Append(@, Toast("info",
                          <<"Analyzing ", ToString(data.v.articlesAnalyzed.v),
                            " articles...">>))]
       [] ty = "partial" -> [st EXCEPT !.newsletter = data.v.data]
       [] ty = "complete" ->
            [st EXCEPT !.toasts = Append(@, Toast("success",
                          <<"Newsletter generated from ",
                            ToString(st.articleCountRef), " articles!">>))]
       [] ty = "error" -> st
       [] OTHER -> st

\* if (line.startsWith("data: ")) try { JSON.parse(line.slice(6)) ... }
\* catch (parseError) { console.warn }
PageHandleLine(st, line) ==
  IF ~StartsWith(line, DataPrefix) THEN st
  ELSE LET r == JSONparse(SubSeq(line, Len(DataPrefix) + 1, Len(line))) IN
       IF r.ok /\ r.val.t # "null" THEN PageHandleData(st, r.val) ELSE st

RECURSIVE PageHandleLines(_, _)
PageHandleLines(st, lines) ==
  IF lines = <<>> THEN st
  ELSE PageHandleLines(PageHandleLine(st, Head(lines)), Tail(lines))

\* one turn of the read loop on the chunk of one enqueued event
PageReaderRead(event) ==
  /\ clientPc = "reading"
  /\ Len(sent) < MaxEvents
  /\ sent' = Append(sent, event)
  /\ \E st \in {PageHandleLines(PageState,
                                SplitLines(encodeSSE(event), <<>>))} :
       /\ articlesAnalyzed' = st.articlesAnalyzed
       /\ newsletter' = st.newsletter
       /\ articleCountRef' = st.articleCountRef
       /\ toasts' = st.toasts
       /\ handled' = st.handled
  /\ UNCHANGED <<wire, clientPc, isGenerating, loadingPhase, feedCount,
                 serverVars, codecVars, storeVars, restVars>>

\* reader.read() reports done: break, finally
PageReaderDone ==
  /\ clientPc = "reading"
  /\ isGenerating' = FALSE
  /\ clientPc' = "done"
  /\ UNCHANGED <<sent, wire, handled, loadingPhase, newsletter,
                 articlesAnalyzed, feedCount, articleCountRef, toasts,
                 serverVars, codecVars, storeVars, restVars>>

\* events of the response body the page reads
PageEvents ==
  {AnalyzingEvent(2), MetadataEvent(60), PartialEvent(JObj([body |-> JStr("A")])),
   CompleteEvent, ErrorEvent("AI stream failed")}

NextPage ==
  \/ \E sp \in SearchParams : PageRender(sp)
  \/ \E ok \in BOOLEAN, error \in {"", "startDate and endDate are required"} :
       PageFetchResponds(ok, error)
  \/ \E event \in PageEvents : PageReaderRead(event)
  \/ PageReaderDone

(***************************************************************************)
(* rss-article.ts and rss-feed.ts on the article store.                    *)
(***************************************************************************)
StoreFeeds == {"f1", "f2"}
Guids == {"g1", "g2"}
NoDoc == [present |-> FALSE, feedId |-> "", sourceFeedIds |-> <<>>]
Doc(feedId, sources) ==
  [present |-> TRUE, feedId |-> feedId, sourceFeedIds |-> sources]

\* sourceFeedIds: { has: feedId }
Has(doc, feedId) == doc.present /\ feedId \in Elems(doc.sourceFeedIds)

\* $pull: every occurrence of feedId removed from the array
Pull(sources, feedId) == SelectSeq(sources, LAMBDA x : x # feedId)

\* prisma.rssArticle.upsert({ where: { guid }, update: push, create })
Upsert(docs, feedId, guid) ==
  [docs EXCEPT ![guid] =
     IF @.present
     THEN [@ EXCEPT !.sourceFeedIds = Append(@, feedId)]
     ELSE Doc(feedId, <<feedId>>)]

\* sourceCount: article.sourceFeedIds.length
SourceCount(doc) == Len(doc.sourceFeedIds)

StoreInit ==
  /\ articleDocs = [g \in Guids |-> NoDoc]
  /\ feedDocs = StoreFeeds
  /\ deleting = ""
  /\ deletePc = "idle"
  /\ docsBefore = [g \in Guids |-> NoDoc]

\* createRssArticle: upsert on guid; push feedId when the article exists
createRssArticle(feedId, guid) ==
  /\ feedId \in feedDocs
  /\ Len(articleDocs[guid].sourceFeedIds) < MaxSources
  /\ articleDocs' = Upsert(articleDocs, feedId, guid)
  /\ UNCHANGED <<feedDocs, deleting, deletePc, docsBefore,
                 serverVars, codecVars, clientVars, restVars>>

\* deleteRssFeed(feedId) is called
DeleteRssFeedCalled(feedId) ==
  /\ deletePc = "idle"
  /\ feedId \in feedDocs
  /\ deleting' = feedId
  /\ deletePc' = "clear"
  /\ docsBefore' = articleDocs
  /\ UNCHANGED <<articleDocs, feedDocs, serverVars, codecVars, clientVars,
                 restVars>>

\* updateMany ... data: { sourceFeedIds: { set: [] } }
ClearedSources(sources) == <<>>

\* updateMany where sourceFeedIds has feedId
DeleteClearSources ==
  /\ deletePc = "clear"
  /\ articleDocs' =
       [g \in Guids |->
          IF Has(articleDocs[g], deleting)
          THEN [articleDocs[g] EXCEPT !.sourceFeedIds = ClearedSources(@)]
          ELSE articleDocs[g]]
  /\ deletePc' = "pull"
  /\ UNCHANGED <<feedDocs, deleting, docsBefore,
                 serverVars, codecVars, clientVars, restVars>>

\* $runCommandRaw update: $pull feedId from sourceFeedIds
DeletePullFeedId ==
  /\ deletePc = "pull"
  /\ articleDocs' =
       [g \in Guids |->
          IF Has(articleDocs[g], deleting)
          THEN [articleDocs[g] EXCEPT !.sourceFeedIds = Pull(@, deleting)]
          ELSE articleDocs[g]]
  /\ deletePc' = "orphans"
  /\ UNCHANGED <<feedDocs, deleting, docsBefore,
                 serverVars, codecVars, clientVars, restVars>>

\* deleteMany where sourceFeedIds isEmpty
DeleteOrphans ==
  /\ deletePc = "orphans"
  /\ articleDocs' =
       [g \in Guids |->
          IF articleDocs[g].present /\ articleDocs[g].sourceFeedIds = <<>>
          THEN NoDoc ELSE articleDocs[g]]
  /\ deletePc' = "feed"
  /\ UNCHANGED <<feedDocs, deleting, docsBefore,
                 serverVars, codecVars, clientVars, restVars>>

\* rssFeed.delete where id = feedId; return { success: true }
DeleteFeedDoc ==
  /\ deletePc = "feed"
  /\ feedDocs' = feedDocs \ {deleting}
  /\ deletePc' = "returned"
  /\ UNCHANGED <<articleDocs, deleting, docsBefore,
                 serverVars, codecVars, clientVars, restVars>>

\* the caller goes on; a later deleteRssFeed call may follow
DeleteReturned ==
  /\ deletePc = "returned"
  /\ deletePc' = "idle"
  /\ deleting' = ""
  /\ UNCHANGED <<articleDocs, feedDocs, docsBefore,
                 serverVars, codecVars, clientVars, restVars>>

NextStore ==
  \/ \E f \in StoreFeeds, g \in Guids : createRssArticle(f, g)
  \/ \E f \in StoreFeeds : DeleteRssFeedCalled(f)
  \/ DeleteClearSources
  \/ DeletePullFeedId
  \/ DeleteOrphans
  \/ DeleteFeedDoc
  \/ DeleteReturned

(***************************************************************************)
(* bulkCreateRssArticles on the same store.                                *)
(***************************************************************************)
MaxBatch == 2        \* articles in one bulkCreateRssArticles call at most

BulkArticles == [feedId : StoreFeeds, guid : Guids]

BulkInputs ==
  UNION {[1..n -> BulkArticles] : n \in 0..MaxBatch}

\* what createRssArticle throws when its upsert failed: a plain Error
CreateFailed ==
  [isError |-> TRUE, message |-> "Failed to create RSS article in database",
   prismaCode |-> ""]

\* error instanceof Prisma.PrismaClientKnownRequestError && code === "P2002"
IsUniqueConstraintError(error) == error.prismaCode = "P2002"

Pushes(input, guid) == Cardinality({i \in 1..Len(input) : input[i].guid = guid})

\* bulkCreateRssArticles(articles) is called
BulkCreateCalled(input) ==
  /\ bulkPc \in {"idle", "returned"}
  /\ \A g \in Guids :
       Len(articleDocs[g].sourceFeedIds) + Pushes(input, g) <= MaxSources
  /\ bulkInput' = input
  /\ bulkPos' = 0
  /\ results' = [created |-> 0, skipped |-> 0, errors |-> 0]
  /\ bulkPc' = "running"
  /\ UNCHANGED <<storeVars, serverVars, codecVars, clientVars, calls,
                 pageVars>>

\* one turn of the loop: await createRssArticle(article) in try/catch
BulkCreateArticle(ok) ==
  /\ bulkPc = "running"
  /\ bulkPos < Len(bulkInput)
  /\ bulkPos' = bulkPos + 1
  /\ IF ok
     THEN /\ articleDocs' = Upsert(articleDocs, bulkInput[bulkPos + 1].feedId,
                                   bulkInput[bulkPos + 1].guid)
          /\ results' = [results EXCEPT !.created = @ + 1]
     ELSE /\ UNCHANGED articleDocs
          /\ results' = IF IsUniqueConstraintError(CreateFailed)
                        THEN [results EXCEPT !.skipped = @ + 1]
                        ELSE [results EXCEPT !.errors = @ + 1]
  /\ UNCHANGED <<bulkInput, bulkPc, feedDocs, deleting, deletePc, docsBefore,
                 serverVars, codecVars, clientVars, calls, pageVars>>

\* return results
BulkReturned ==
  /\ bulkPc = "running"
  /\ bulkPos = Len(bulkInput)
  /\ bulkPc' = "returned"
  /\ UNCHANGED <<bulkInput, bulkPos, results, storeVars, serverVars,
                 codecVars, clientVars, calls, pageVars>>

NextBulk ==
  \/ \E input \in BulkInputs : BulkCreateCalled(input)
  \/ \E ok \in BOOLEAN : BulkCreateArticle(ok)
  \/ BulkReturned

\* the server at rest, while the codec or the client is exercised alone
ServerIdle ==
  /\ ServerInit
  /\ feeds = [f \in FeedIds |-> [url |-> FeedUrl[f], lastFetched |-> NULL]]
  /\ articleCount = [f \in FeedIds |-> 0]

Next ==
  \/ \E b \in Bodies : Post(b)
  \/ \E ok \in BOOLEAN : RouteGetFeedsToRefresh(ok)
  \/ \E o \in {"ok", "User not authenticated", "User not found in database"} :
       GenAuth(o)
  \/ \E ok \in BOOLEAN : GenGetFeedsToRefresh(ok)
  \/ \E f \in FeedIds, ok \in BOOLEAN, added \in NewArticles :
       FetchAndStoreFeed(f, ok, added)
  \/ \E ok \in BOOLEAN : GenGetArticles(ok)
  \/ \E s \in Snapshots : StreamYield(s)
  \/ StreamEnd
  \/ \E e \in ThrownByProducer : StreamThrow(e)
  \/ \E f \in FeedIds : ArticleStoredMeanwhile(f)
  \/ ClientCancel
  \/ Tick

\* no bulk call, no second generate call and no page in the picture
RestIdle ==
  /\ bulkInput = <<>>
  /\ bulkPos = 0
  /\ results = [created |-> 0, skipped |-> 0, errors |-> 0]
  /\ bulkPc = "idle"
  /\ calls = <<>>
  /\ params = NullParams
  /\ hasStartedRef = FALSE
  /\ starts = 0

Init == ServerInit /\ CodecIdle /\ ClientIdle /\ StoreInit /\ RestIdle
Spec == Init /\ [][Next]_vars

InitCodec == ServerIdle /\ CodecInit /\ ClientIdle /\ StoreInit /\ RestIdle
SpecCodec == InitCodec /\ [][NextCodec]_vars

InitStream == ServerIdle /\ CodecIdle /\ ClientInit /\ StoreInit /\ RestIdle
SpecStream == InitStream /\ [][NextStream]_vars

InitEvents == ServerIdle /\ CodecIdle /\ ClientInit /\ StoreInit /\ RestIdle
SpecEvents == InitEvents /\ [][NextEvents]_vars

InitPage == ServerIdle /\ CodecIdle /\ ClientIdle /\ StoreInit /\ RestIdle
SpecPage == InitPage /\ [][NextPage]_vars

InitBulk == ServerIdle /\ CodecIdle /\ ClientIdle /\ StoreInit /\ RestIdle
SpecBulk == InitBulk /\ [][NextBulk]_vars

InitOverlap ==
  /\ ServerIdle /\ CodecIdle /\ ClientInit /\ StoreInit
  /\ bulkInput = <<>>
  /\ bulkPos = 0
  /\ results = [created |-> 0, skipped |-> 0, errors |-> 0]
  /\ bulkPc = "idle"
  /\ calls = [c \in CallIds |-> "notStarted"]
  /\ params = NullParams
  /\ hasStartedRef = FALSE
  /\ starts = 0
SpecOverlap == InitOverlap /\ [][NextOverlap]_vars

InitStore == ServerIdle /\ CodecIdle /\ ClientIdle /\ StoreInit /\ RestIdle
SpecStore == InitStore /\ [][NextStore]_vars

(***************************************************************************)
(* Properties of the endpoint's event sequence.                            *)
(***************************************************************************)
EventTypes == [i \in 1..Len(events) |-> TypeOf(events[i])]
Positions(ty) == {i \in 1..Len(events) : EventTypes[i] = ty}
NumTerminal == Cardinality(Positions("complete") \cup Positions("error"))

TerminatedOnce ==
  /\ NumTerminal = 1
  /\ EventTypes[Len(events)] \in {"complete", "error"}
  /\ closed

\* C1 as stated: every validated request whose handler has finished ends in
\* exactly one terminal event, emitted last, with the stream closed after it.
C1_EveryStreamTerminatedOnce ==
  (streamOpen /\ pc = "done") => TerminatedOnce

\* C1, amended: unless the client has cancelled the stream, a validated
\* request whose handler has finished (the producer ended or something
\* failed) has exactly one terminal event, complete or error, it is the last
\* event and the stream is closed; in every state there is at most one
\* terminal event, nothing follows it, and the stream is closed exactly when
\* it has been emitted.
C1_UncancelledStreamTerminatedOnce ==
  /\ (streamOpen /\ pc = "done" /\ ~cancelled) => TerminatedOnce
  /\ NumTerminal <= 1
  /\ NumTerminal = 1 => EventTypes[Len(events)] \in {"complete", "error"}
  /\ closed <=> NumTerminal = 1

C1_Witness ==
  /\ pc = "done" /\ ~cancelled /\ producerEnded
  /\ Len(produced) = 2
  /\ EventTypes[Len(events)] = "complete"

(***************************************************************************)
(* Staleness, stated from the fetch times recorded for a URL.              *)
(***************************************************************************)
FetchTimes(store, url) ==
  {store[g].lastFetched : g \in {h \in DOMAIN store : store[h].url = url}}
    \ {NULL}

Latest(S) == CHOOSE x \in S : \A y \in S : y <= x

Stale(store, clock, f) ==
  LET ts == FetchTimes(store, store[f].url)
  IN  ts = {} \/ clock - Latest(ts) > 3 * HourMs

Requested == FeedIds \cap Elems(body.feedIds.ids)

\* the step in which the endpoint's getFeedsToRefresh returned
RouteEvaluated == pc = "route_check" /\ pc' # pc /\ caught' # DbError
\* the step in which the generation action's getFeedsToRefresh returned
GenEvaluated == pc = "gen_check" /\ pc' # pc /\ caught' # DbError

\* C2: refreshing, analyzing and metadata occur at most once each, in that
\* order; metadata precedes every partial; no partial or complete without a
\* preceding metadata; a request none of whose feeds is stale when the
\* endpoint evaluates staleness emits no refreshing event.
C2_EventOrder ==
  /\ [](/\ Cardinality(Positions("refreshing")) <= 1
        /\ Cardinality(Positions("analyzing")) <= 1
        /\ Cardinality(Positions("metadata")) <= 1
        /\ \A i \in Positions("refreshing") : \A j \in Positions("analyzing") : i < j
        /\ \A i \in Positions("refreshing") : \E j \in Positions("analyzing") : i < j
        /\ \A i \in Positions("analyzing") : \A j \in Positions("metadata") : i < j
        /\ \A i \in Positions("metadata") : \A j \in Positions("partial") : i < j
        /\ \A j \in Positions("partial") \cup Positions("complete") :
             \E i \in Positions("metadata") : i < j
        /\ \A j \in Positions("metadata") :
             \E i \in Positions("analyzing") : i < j)
  /\ [][(pc = "route_check" /\ \A f \in Requested : ~Stale(feeds, now, f))
          => \A i \in 1..Len(events') : TypeOf(events'[i]) # "refreshing"]_vars

C2_Witness ==
  /\ Len(events) >= 5
  /\ [i \in 1..4 |-> EventTypes[i]] =
       <<"refreshing", "analyzing", "metadata", "partial">>
  /\ EventTypes[Len(events)] = "complete"

\* C3: when the read loop has ended, the events it passed to
\* handleStreamEvent are exactly the events the response carried, in order,
\* however the encoded text was cut into fragments.
C3_FragmentsReproduceSequence ==
  clientPc = "done" => handled = sent

\* C4: for an event of any of the six kinds, the line handed to parseSSELine
\* is the text of encodeSSE without its two trailing newlines, and
\* parseSSELine of it returns a value equal to the event.
C4_RoundTrip ==
  /\ codecPc \in {"line", "parsed"} =>
       /\ codecText \o <<NEWLINE, NEWLINE>> = encodeSSE(codecEvent)
       /\ codecText[Len(codecText)] # NEWLINE
  /\ codecPc = "parsed" => codecResult = codecEvent

C4_Witness ==
  /\ codecPc = "parsed"
  /\ codecEvent = PartialEvent(JObj([body |-> JStr("line1\nline2")]))
  /\ codecResult = codecEvent
  /\ StartsWith(codecText, DataPrefix)
  /\ codecText[Len(codecText)] # NEWLINE

\* C5: getFeedsToRefresh returns exactly the requested feeds for whose URL
\* no fetch time is recorded or whose latest recorded fetch is more than 3
\* hours before now; latest fetch 2 or exactly 3 hours ago: excluded; 4 hours
\* ago: included.
C5_StaleExactlyWhenOlderThan3h ==
  [][/\ RouteEvaluated =>
          /\ feedsToRefresh' = {f \in Requested : Stale(feeds, now, f)}
          /\ \A f \in Requested :
               LET ts == FetchTimes(feeds, feeds[f].url) IN
               /\ ts = {} => f \in feedsToRefresh'
               /\ (ts # {} /\ Latest(ts) = now - 2 * HourMs) => f \notin feedsToRefresh'
               /\ (ts # {} /\ Latest(ts) = now - 3 * HourMs) => f \notin feedsToRefresh'
               /\ (ts # {} /\ Latest(ts) = now - 4 * HourMs) => f \in feedsToRefresh'
     /\ GenEvaluated =>
          genToRefresh' = {f \in Requested : Stale(feeds, now, f)}]_vars

C5_Witness ==
  /\ pc = "gen_auth" /\ caught = NoError
  /\ body.feedIds.ids = <<"f1", "f3">>
  /\ feeds["f1"].lastFetched = now - 4 * HourMs
  /\ feeds["f2"].lastFetched = NULL
  /\ feeds["f3"].lastFetched = now - 3 * HourMs
  /\ feedsToRefresh = {"f1"}

\* C6: a requested feed is not reported stale when any record sharing its
\* URL was fetched within the last 3 hours, whatever its own record says;
\* two records sharing a URL, one fetched recently and one never: neither is
\* reported.
C6_StalenessSharedAcrossUrl ==
  [][/\ RouteEvaluated =>
          \A f \in Requested : \A g \in FeedIds :
            (/\ feeds[g].url = feeds[f].url
             /\ feeds[g].lastFetched # NULL
             /\ now - feeds[g].lastFetched <= 3 * HourMs)
            => (f \notin feedsToRefresh' /\ g \notin feedsToRefresh')
     /\ GenEvaluated =>
          \A f \in Requested : \A g \in FeedIds :
            (/\ feeds[g].url = feeds[f].url
             /\ feeds[g].lastFetched # NULL
             /\ now - feeds[g].lastFetched <= 3 * HourMs)
            => (f \notin genToRefresh' /\ g \notin genToRefresh')]_vars

C6_Witness ==
  /\ pc = "gen_auth" /\ caught = NoError
  /\ body.feedIds.ids = <<"f1", "f2">>
  /\ feeds["f1"].lastFetched = NULL
  /\ feeds["f2"].lastFetched = now - 2 * HourMs
  /\ feedsToRefresh = {}

\* C7 as stated: when retrieval returned zero articles the event sequence is
\* exactly refreshing (optional), analyzing, error, and the producer is never
\* invoked.
C7_EmptyWindowSequence ==
  (articles = 0 /\ pc = "done") =>
    /\ EventTypes \in {<<"analyzing", "error">>,
                       <<"refreshing", "analyzing", "error">>}
    /\ ~producerInvoked

\* C7, amended: when retrieval returned zero articles, no metadata, partial
\* or complete event is ever emitted and the producer is never invoked; the
\* event sequence is exactly refreshing (optional), analyzing, error unless
\* the client has cancelled the stream, and then it is refreshing
\* (optional), analyzing.
C7_EmptyWindowNoGeneration ==
  articles = 0 =>
    /\ pc = "done"
    /\ ~producerInvoked
    /\ Positions("metadata") \cup Positions("partial") \cup Positions("complete") = {}
    /\ ~cancelled => EventTypes \in {<<"analyzing", "error">>,
                                      <<"refreshing", "analyzing", "error">>}
    /\ cancelled => EventTypes \in {<<"analyzing">>,
                                     <<"refreshing", "analyzing">>}

C7_Witness ==
  /\ articles = 0 /\ pc = "done" /\ ~cancelled
  /\ EventTypes = <<"refreshing", "analyzing", "error">>
  /\ \E f \in FeedIds : <<f, "fulfilled">> \in refreshed

\* data of the partial events, in stream order
RECURSIVE PartialData(_)
PartialData(evs) ==
  IF evs = <<>> THEN <<>>
  ELSE (IF TypeOf(Head(evs)) = "partial" THEN <<Head(evs).v.data>> ELSE <<>>)
       \o PartialData(Tail(evs))

\* C8 as stated: when the producer yielded s1..sn and ended without error,
\* the stream holds exactly the n partial events carrying s1..sn in order,
\* followed by complete.
C8_EverySnapshotThenComplete ==
  (producerEnded /\ pc = "done") =>
    /\ PartialData(events) = produced
    /\ EventTypes[Len(events)] = "complete"

\* C8, amended: unless the client has cancelled the stream, the partial
\* events carry exactly the snapshots yielded so far, one event per
\* snapshot in the order yielded, and once the producer has ended without
\* error they are the last events before a final complete.
C8_UncancelledSnapshotsThenComplete ==
  ~cancelled =>
    /\ PartialData(events) = produced
    /\ (producerEnded /\ pc = "done") =>
         /\ EventTypes[Len(events)] = "complete"
         /\ \A i \in 1..Len(produced) :
              events[Len(events) - 1 - Len(produced) + i] = PartialEvent(produced[i])

C8_Witness ==
  /\ producerEnded /\ pc = "done" /\ ~cancelled
  /\ Len(produced) = 2 /\ produced[1] = produced[2]

C10_EveryFailureOneErrorEvent ==
  /\ ~escaped
  /\ (pc = "done" /\ caught # NoError) => Cardinality(Positions("error")) = 1

(***************************************************************************)
(* Properties of the stream consumer.                                      *)
(***************************************************************************)
HandledTypes == [i \in 1..Len(handled) |-> TypeOf(handled[i])]
HandledOf(ty) == {i \in 1..Len(handled) : HandledTypes[i] = ty}
SuccessToasts == {i \in 1..Len(toasts) : toasts[i].kind = "success"}

RECURSIVE LastPartialData(_)
LastPartialData(evs) ==
  IF evs = <<>> THEN JNull
  ELSE IF TypeOf(evs[Len(evs)]) = "partial" THEN evs[Len(evs)].v.data
  ELSE LastPartialData(SubSeq(evs, 1, Len(evs) - 1))

\* C11: once an error event has been applied, generate has returned with
\* newsletter null, loadingPhase idle, isGenerating false, and the last
\* notification is an error toast showing the event's error text, however
\* many partial events were applied before it.
C11_ErrorResetsConsumer ==
  HandledOf("error") # {} =>
    /\ HandledOf("error") = {Len(handled)}
    /\ clientPc = "done"
    /\ newsletter = JNull
    /\ loadingPhase = "idle"
    /\ ~isGenerating
    /\ toasts # <<>>
    /\ toasts[Len(toasts)] =
         Toast("error", <<handled[Len(handled)].v.error.v>>)

C11_Witness ==
  /\ clientPc = "done"
  /\ HandledTypes = <<"metadata", "partial", "partial", "error">>
  /\ handled[2] # handled[3]
  /\ newsletter = JNull

\* C12: while no error event has been applied, the newsletter content is
\* the data of the last partial event applied, unmerged, and null when no
\* partial was applied; complete leaves it unchanged.
C12_ContentIsLastPartial ==
  (clientPc \in {"reading", "done"} /\ HandledOf("error") = {}) =>
    newsletter = LastPartialData(handled)

C12_Witness ==
  /\ clientPc = "done"
  /\ handled = <<PartialEvent(JObj([body |-> JStr("A")])),
                 PartialEvent(JObj([suggestedTitles |-> JArr(<<JStr("B")>>)])),
                 CompleteEvent>>
  /\ newsletter = JObj([suggestedTitles |-> JArr(<<JStr("B")>>)])

\* C15: while no complete event has been applied, and so when the reader
\* reports done before one, loadingPhase is not complete and no success
\* notification has been shown.
C15_SilenceIsNotSuccess ==
  HandledOf("complete") = {} =>
    /\ loadingPhase # "complete"
    /\ SuccessToasts = {}

C15_Witness ==
  /\ clientPc = "done"
  /\ HandledTypes = <<"analyzing", "metadata", "partial">>
  /\ loadingPhase = "generating"
  /\ ~isGenerating
  /\ toasts = <<>>

(***************************************************************************)
(* Properties of the refresh stage.                                        *)
(***************************************************************************)
Settled == {f \in FeedIds : \E o \in {"fulfilled", "rejected"} : <<f, o>> \in refreshed}
Rejected == {f \in FeedIds : <<f, "rejected">> \in refreshed}
RefreshingCounts ==
  {events[i].v.feedCount.v : i \in Positions("refreshing")}

\* C13: a refresh that fails emits nothing and throws nothing: the other
\* stale feeds of the batch stay due and are settled one by one, and when all
\* have settled the request is at article retrieval with no error event,
\* whatever number of refreshes failed.
C13_RefreshFailureIsolated ==
  /\ [](pc \in {"gen_refresh", "gen_articles"} =>
          /\ Positions("error") = {}
          /\ caught = NoError
          /\ ~closed
          /\ Settled \cup pending = genToRefresh
          /\ Settled \cap pending = {}
          /\ (pc = "gen_articles" <=> pending = {}))
  /\ [][(pc = "gen_refresh" /\ Rejected' # Rejected) =>
          /\ events' = events
          /\ caught' = caught
          /\ pc' = (IF pending' = {} THEN "gen_articles" ELSE "gen_refresh")]_vars

C13_Witness ==
  /\ pc = "done" /\ ~cancelled
  /\ Rejected # {}
  /\ Settled \ Rejected # {}
  /\ Len(events) >= 4
  /\ EventTypes[Len(events)] = "complete"
  /\ Positions("metadata") # {} /\ Positions("partial") # {}

\* C16: no analyzing event is on the stream while a refresh of the request
\* is still to be started or to settle.
C16_AnalyzingAfterRefresh ==
  (pc \in {"gen_auth", "gen_check", "gen_refresh"}) =>
    Positions("analyzing") = {}

\* C17: once the generation action has decided which feeds it re-fetches, a
\* refreshing event on the stream carries that number as its feedCount.
C17_RefreshingCountIsRefetched ==
  (pc \in {"gen_refresh", "gen_articles", "streaming"}) =>
    \A n \in RefreshingCounts : n = Cardinality(genToRefresh)

(***************************************************************************)
(* Properties of the article store.                                        *)
(***************************************************************************)
\* C14: when deleteRssFeed(f) has returned, every article that listed a
\* feed other than f in sourceFeedIds when the call was made still exists
\* and still lists that feed.
C14_SharedArticlesSurvive ==
  deletePc = "returned" =>
    \A g \in Guids : \A other \in StoreFeeds \ {deleting} :
      Has(docsBefore[g], other) => Has(articleDocs[g], other)

(***************************************************************************)
(* Properties of the error and metadata events.                            *)
(***************************************************************************)
\* C18: when a failure stopped the pipeline after the stream opened and the
\* client has not cancelled, the error event carries the text of the thrown
\* value, whether or not the value is an Error instance.
C18_ErrorTextVerbatim ==
  (pc = "done" /\ caught # NoError /\ ~cancelled) =>
    events[Len(events)] = ErrorEvent(caught.message)

MetadataCounts ==
  {events[i].v.articlesAnalyzed.v : i \in Positions("metadata")}

\* C19: a metadata event carries the number of articles the request
\* retrieved, between 1 and 100; it precedes every partial, and once it is on
\* the stream neither it nor the retrieved number changes and no second
\* metadata follows, whatever is stored meanwhile.
C19_ArticlesAnalyzedFixed ==
  /\ [](/\ MetadataCounts \subseteq {articles}
        /\ Positions("metadata") # {} => (1 <= articles /\ articles <= 100)
        /\ \A i \in Positions("metadata") : \A j \in Positions("partial") : i < j)
  /\ [][Positions("metadata") # {} =>
          /\ articles' = articles
          /\ SubSeq(events', 1, Len(events)) = events
          /\ \A i \in Len(events) + 1..Len(events') :
               TypeOf(events'[i]) # "metadata"]_vars

C19_Witness ==
  /\ pc = "done" /\ ~cancelled
  /\ refreshed = {}
  /\ MetadataCounts = {60}
  /\ SumOver(articleCount, Requested) = 61
  /\ Positions("partial") # {}
  /\ EventTypes[Len(events)] = "complete"

(***************************************************************************)
(* Properties of the parser on lines that carry no event.                  *)
(***************************************************************************)
\* a line without the "data: " prefix, or whose remainder is not JSON
InvalidLine(line) ==
  \/ ~StartsWith(line, DataPrefix)
  \/ ~JSONparse(SubSeq(line, Len(DataPrefix) + 1, Len(line))).ok

\* the lines of the fragment a turn of the read loop takes off the wire
LinesRead == SplitLines(SubSeq(wire, 1, Len(wire) - Len(wire')), <<>>)

\* C20: parseSSELine returns null for every line that lacks the prefix or
\* whose remainder is not valid JSON; a fragment made of such lines only
\* leaves the consumer state as it was, and a fragment never has more events
\* handled than it has valid lines.
C20_InvalidLinesIgnored ==
  [][(clientPc = "reading" /\ wire' # wire) =>
       \E lines \in {LinesRead} :
         \E invalid \in {{k \in DOMAIN lines : InvalidLine(lines[k])}} :
           /\ \A k \in invalid : parseSSELine(lines[k]) = JNull
           /\ invalid = DOMAIN lines =>
                UNCHANGED <<handled, clientPc, isGenerating, loadingPhase,
                            newsletter, articlesAnalyzed, feedCount,
                            articleCountRef, toasts>>
           /\ Len(handled') - Len(handled) <=
                Cardinality(DOMAIN lines \ invalid)
     ]_vars

C20_Witness ==
  /\ clientPc = "reading"
  /\ sent # <<>>
  /\ wire # <<>>
  /\ Len(wire) < Len(EncodeAll(sent)) - Len(DataPrefix)
  /\ Len(wire) > Len(EncodeAll(Tail(sent))) + 2
  /\ handled = <<>>
  /\ loadingPhase = "idle" /\ toasts = <<>> /\ isGenerating

(***************************************************************************)
(* Properties of the consumer's counters.                                  *)
(***************************************************************************)
RECURSIVE LastMetadataCount(_)
LastMetadataCount(evs) ==
  IF evs = <<>> THEN 0
  ELSE IF TypeOf(evs[Len(evs)]) = "metadata"
  THEN evs[Len(evs)].v.articlesAnalyzed.v
  ELSE LastMetadataCount(SubSeq(evs, 1, Len(evs) - 1))

\* the event a turn of the read loop has just applied
Applied == handled'[Len(handled')]

\* C21: articlesAnalyzed is what the last metadata event applied set, through
\* every later partial and complete; a partial changes only the content and
\* the phase, complete leaves articlesAnalyzed and feedCount alone, and
\* refreshing and analyzing change only the phase and feedCount.
C21_CountersLatched ==
  /\ [](clientPc \in {"reading", "done"} =>
          articlesAnalyzed = LastMetadataCount(handled))
  /\ [][(clientPc = "reading" /\ Len(handled') = Len(handled) + 1) =>
          /\ TypeOf(Applied) = "partial" =>
               /\ newsletter' = Applied.v.data
               /\ loadingPhase' = "generating"
               /\ UNCHANGED <<articlesAnalyzed, feedCount, articleCountRef,
                              toasts, isGenerating, clientPc>>
          /\ TypeOf(Applied) = "complete" =>
               UNCHANGED <<articlesAnalyzed, feedCount, newsletter>>
          /\ TypeOf(Applied) \in {"refreshing", "analyzing"} =>
               /\ loadingPhase' = TypeOf(Applied)
               /\ feedCount' = Applied.v.feedCount.v
               /\ UNCHANGED <<articlesAnalyzed, newsletter, articleCountRef,
                              toasts, isGenerating, clientPc>>]_vars

C21_Witness ==
  /\ clientPc = "done"
  /\ HandledTypes = <<"analyzing", "metadata", "partial", "complete">>
  /\ articlesAnalyzed = 60
  /\ feedCount = 2

(***************************************************************************)
(* Properties of NewsletterGenerationPage.                                 *)
(***************************************************************************)
PageErrorAt(i) == TypeOf(handled[i]) = "error"

\* C22: once the inline reader of handleGenerate has parsed an error event,
\* the content is null, nothing of the stream is processed after the event,
\* the call has ended and the last toast is an error toast with the
\* event's text.
C22_PageErrorDiscardsContent ==
  \A i \in 1..Len(handled) :
    (starts > 0 /\ PageErrorAt(i)) =>
      /\ i = Len(handled)
      /\ newsletter = JNull
      /\ clientPc = "done"
      /\ toasts # <<>>
      /\ toasts[Len(toasts)] = Toast("error", <<handled[i].v.error.v>>)

\* the error event right after a partial: the content stays, and the
\* reader goes on to the next event
C22_Swallowed ==
  /\ starts > 0
  /\ Len(handled) = 3
  /\ TypeOf(handled[1]) = "partial"
  /\ PageErrorAt(2)
  /\ TypeOf(handled[3]) = "complete"
  /\ newsletter = handled[1].v.data
  /\ \A k \in 1..Len(toasts) : toasts[k].kind # "error"

\* URL parameters that are all present and whose feedIds parse
Startable(sp) ==
  /\ ~NotGiven(sp.feedIds) /\ ~NotGiven(sp.startDate) /\ ~NotGiven(sp.endDate)
  /\ JSONparse(sp.feedIds.text).ok

\* C28: one mounted page calls the generation at most once, whatever the
\* number of renders and effect runs, and only on a render whose URL
\* parameters are all present and parse.
C28_StartsAtMostOnce ==
  /\ [](starts <= 1 /\ (starts = 1 <=> hasStartedRef))
  /\ [][starts' # starts =>
          /\ starts = 0 /\ starts' = 1
          /\ \E sp \in SearchParams :
               Startable(sp) /\ params' = ParseParams(sp)]_vars

\* the page was rendered again, with parameters that do not parse, and once
\* more with other parameters that do, while its one generation was read
C28_Witness ==
  /\ starts = 1
  /\ clientPc = "reading"
  /\ handled # <<>>
  /\ ~params.isNull
  /\ Len(params.feedIds.v) = 2
  /\ toasts[1] = Toast("info", <<"Preparing ", "1", " feed", "", "...">>)

(***************************************************************************)
(* Properties of bulkCreateRssArticles.                                    *)
(***************************************************************************)
\* the article the loop has just processed
BulkArticle == bulkInput[bulkPos']

\* C23: an article whose guid is already stored when its turn comes, from
\* before the call or from earlier in the batch, adds one to skipped and
\* nothing to created; and when the call returns, created + skipped +
\* errors is the number of articles given.
C23_DuplicatesSkipped ==
  /\ [](bulkPc = "returned" =>
          results.created + results.skipped + results.errors = Len(bulkInput))
  /\ [][(bulkPos' = bulkPos + 1 /\ articleDocs[BulkArticle.guid].present
           /\ results'.errors = results.errors) =>
          /\ results'.skipped = results.skipped + 1
          /\ results'.created = results.created]_vars

\* the same guid twice in one batch: both counted as created
C23_BothCreated ==
  /\ bulkPc = "returned"
  /\ Len(bulkInput) = 2
  /\ bulkInput[1].guid = bulkInput[2].guid
  /\ results = [created |-> 2, skipped |-> 0, errors |-> 0]

(***************************************************************************)
(* Properties of getFeedsToRefresh under failing lookups.                  *)
(***************************************************************************)
\* C24: whenever the endpoint evaluates getFeedsToRefresh for a request,
\* also when a lookup of the evaluation fails, the evaluation is not
\* aborted: it returns the requested feeds that are due, and the request
\* goes on with them.
C24_LookupFailureIsolated ==
  [][(pc = "route_check" /\ pc' # pc) =>
       /\ pc' = "gen_auth"
       /\ feedsToRefresh' = getFeedsToRefresh(feeds, now, body.feedIds.ids)]_vars

\* a failed lookup ended the whole evaluation: no feed was returned, and
\* the request ended with the error event
C24_Aborted ==
  /\ caught = DbError
  /\ evaluations = 1
  /\ Len(body.feedIds.ids) = 2
  /\ feedsToRefresh = {}
  /\ getFeedsToRefresh(feeds, now, body.feedIds.ids) # {}

(***************************************************************************)
(* Properties of the consumer under fragmentation.                         *)
(***************************************************************************)
\* a is b with some elements left out
RECURSIVE IsSubsequence(_, _)
IsSubsequence(a, b) ==
  IF a = <<>> THEN TRUE
  ELSE IF b = <<>> THEN FALSE
  ELSE IF Head(a) = Head(b) THEN IsSubsequence(Tail(a), Tail(b))
  ELSE IsSubsequence(a, Tail(b))

\* C25: however the body is cut into fragments, the events parseSSEChunk
\* returns, fragment after fragment, are the events sent with some of them
\* left out: none twice, none out of order, none that was not sent.
C25_ParsedIsSubsequence ==
  /\ [](IsSubsequence(handled, sent))
  /\ [][(clientPc = "reading" /\ wire' # wire) =>
          \E parsed \in {parseSSEChunk(SubSeq(wire, 1, Len(wire) - Len(wire')))} :
            \E before \in {Len(handled') - Len(parsed)} :
              \/ /\ before >= 0
                 /\ parsed = SubSeq(handled', before + 1, Len(handled'))
                 /\ handled = SubSeq(handled', 1, before)
              \/ /\ clientPc' = "done"
                 /\ IsSubsequence(handled \o parsed, sent)]_vars

\* a body read to its end in fragments that lost an event and kept others
C25_Witness ==
  /\ clientPc = "done"
  /\ wire = <<>>
  /\ Len(sent) = 4
  /\ Len(handled) = 3
  /\ HandledTypes = <<"analyzing", "partial", "complete">>

\* C26: once an error event was applied, it is the last event applied:
\* whatever follows it in its chunk or in the body is not processed, the
\* read loop is left, and the content stays null and the phase idle.
C26_NothingAfterError ==
  /\ [](\A i \in HandledOf("error") :
          /\ i = Len(handled)
          /\ clientPc = "done"
          /\ newsletter = JNull
          /\ loadingPhase = "idle"
          /\ ~isGenerating)
  /\ [][HandledOf("error") # {} => UNCHANGED clientVars]_vars

\* the chunk that brought the error event held a complete event after it
C26_Witness ==
  /\ Len(sent) = 3
  /\ TypeOf(sent[1]) = "partial"
  /\ TypeOf(sent[2]) = "error"
  /\ TypeOf(sent[3]) = "complete"
  /\ HandledTypes = <<"partial", "error">>
  /\ clientPc = "done"
  /\ SuccessToasts = {}

(***************************************************************************)
(* Properties of overlapping generate calls.                               *)
(***************************************************************************)
InProgress == {c \in DOMAIN calls : calls[c] \in {"fetching", "reading"}}

\* C27: isGenerating is true exactly while at least one generate call has
\* started and not finished, overlapping calls included.
C27_GeneratingWhileAnyCallRuns ==
  calls # <<>> => (isGenerating <=> InProgress # {})

\* the first call ended while the second is still reading its response
C27_ClearedByOtherCall ==
  /\ calls # <<>>
  /\ calls[1] = "finished"
  /\ calls[2] = "reading"
  /\ ~isGenerating

(***************************************************************************)
(* Properties of the loading phase.                                        *)
(***************************************************************************)
PhaseRank(phase) ==
  CASE phase = "idle" -> 0
    [] phase = "refreshing" -> 1
    [] phase = "analyzing" -> 2
    [] phase = "generating" -> 3
    [] phase = "complete" -> 4

\* C29: while one generate call reads a body the endpoint produced, cut
\* into fragments in any way and with events lost at the cuts, the loading
\* phase never goes back in the order idle, refreshing, analyzing,
\* generating, complete, except for the reset to idle when the call fails.
C29_PhaseNeverGoesBack ==
  [][\/ PhaseRank(loadingPhase') >= PhaseRank(loadingPhase)
     \/ /\ loadingPhase' = "idle"
        /\ clientPc' = "done"
        /\ toasts' # toasts
        /\ toasts'[Len(toasts')].kind = "error"]_vars

\* a body whose analyzing event was lost at a cut, read to the end
C29_Witness ==
  /\ clientPc = "done"
  /\ Len(sent) = 5
  /\ HandledTypes = <<"refreshing", "metadata", "partial", "complete">>
  /\ loadingPhase = "complete"

(***************************************************************************)
(* Properties of the stored sources.                                       *)
(***************************************************************************)
\* C30: after any sequence of createRssArticle calls every stored article
\* lists each feed id at most once in sourceFeedIds, so the sourceCount
\* reported for it is the number of distinct feeds that delivered it.
C30_SourcesDistinct ==
  \A g \in Guids :
    articleDocs[g].present =>
      SourceCount(articleDocs[g]) = Cardinality(Elems(articleDocs[g].sourceFeedIds))

\* one feed delivered the same guid twice: two sources are counted
C30_CountedTwice ==
  /\ articleDocs["g1"] = Doc("f1", <<"f1", "f1">>)
  /\ SourceCount(articleDocs["g1"]) = 2
  /\ deletePc = "idle"

====
